---------------------------- MODULE Spec2Model ----------------------------
(***************************************************************************)
(* The advanced LifeSim component (src/unnamed/part_000, lines 226-732):   *)
(* the world held in agentsRef / foodRef / historyRef / nextIdRef, the     *)
(* requestAnimationFrame callback `update` that advances it by one tick,   *)
(* and the buttons that drive it; the sliders stay at their defaults.      *)
(* This is specification Spec.  SpecStarve, SpecFed and SpecAged are the   *)
(* same component started from worlds without prey, of agents one feed     *)
(* below the reproduction threshold, and of agents at the end of their     *)
(* life; SpecDriver adds the sliders.  Specification SpecBasic is the      *)
(* first variant of the component (src/src/LifeSim.tsx), with its sliders  *)
(* and the closure of its update effect.                                   *)
(*                                                                         *)
(* Numbers.  The source computes with IEEE doubles; the model computes     *)
(* with integers in fixed units, one unit per kind of quantity:            *)
(*   positions, vision      1/PU  of a world unit                          *)
(*   velocities             1/VU                                           *)
(*   innate speed           1/SU                                           *)
(*   time scale, carnivore metabolism scale   1/TU                         *)
(*   speed multipliers, starvation factor     1/FU                         *)
(*   metabolism             1/MU                                           *)
(*   energy                 1/EU, EU = MU*TU*FU*TU, so that the metabolism *)
(*                          product of line 607 is exact                   *)
(*   age                    one unit per tick (0.05 in the source)         *)
(*   Math.random()          1/RU                                           *)
(* Distances are compared through their squares, which is exact.  A        *)
(* quotient is truncated toward zero.  NaN (0/0 at lines 365-366) is a     *)
(* value of its own that absorbs arithmetic and fails every comparison.    *)
(***************************************************************************)
EXTENDS Integers, Sequences, FiniteSets, TLC

----------------------------------------------------------------------------
(* Units *)

PU == 10
VU == 1000
SU == 100
TU == 20
FU == 10
MU == 200
RU == 1000
EU == MU * TU * FU * TU

(* Program constants *)

WORLD_WIDTH == 800
WORLD_HEIGHT == 500
MAX_AGE == 800
AGE_PER_UNIT == 20

\* Age is a double that starts at 0 (lines 294, 523 and 567) and grows by
\* 0.05 per tick (line 608).  0.05 is not a double: the sum of 16000 terms
\* is 799.9999999998201, that of 16001 terms is 800.0499999998201.  The
\* model counts the terms; age < 800 (line 611) holds for up to
\* MAX_AGE * AGE_PER_UNIT of them and fails from this count on.
AgeLimit == MAX_AGE * AGE_PER_UNIT + 1

(* optional field that is absent (undefined) *)
Undef == -1

(* IEEE NaN *)
NaN == -2000000000

----------------------------------------------------------------------------
(* Arithmetic of the source's number type *)

IsNaN(a) == a = NaN

Abs(a) == IF a < 0 THEN -a ELSE a

\* a / b for b > 0, truncated toward zero
Div(a, b) == IF a >= 0 THEN a \div b ELSE -((-a) \div b)

NAdd(a, b) == IF IsNaN(a) \/ IsNaN(b) THEN NaN ELSE a + b

NSub(a, b) == IF IsNaN(a) \/ IsNaN(b) THEN NaN ELSE a - b

NNeg(a) == IF IsNaN(a) THEN NaN ELSE -a

NAbs(a) == IF IsNaN(a) THEN NaN ELSE Abs(a)

\* a * num / den
NScale(a, num, den) == IF IsNaN(a) THEN NaN ELSE Div(a * num, den)

\* a < b ; false when either side is NaN
NLt(a, b) == ~IsNaN(a) /\ ~IsNaN(b) /\ a < b

NGt(a, b) == ~IsNaN(a) /\ ~IsNaN(b) /\ a > b

RECURSIVE SqrtSearch(_, _, _)
SqrtSearch(n, lo, hi) ==
    IF lo >= hi THEN lo
    ELSE LET mid == (lo + hi + 1) \div 2
         IN  IF mid * mid <= n THEN SqrtSearch(n, mid, hi)
                               ELSE SqrtSearch(n, lo, mid - 1)

\* floor of the square root of n, 0 <= n < 2^30
ISqrt(n) == SqrtSearch(n, 0, 32767)

\* Math.hypot(a, b) squared
Hypot2(a, b) == IF IsNaN(a) \/ IsNaN(b) THEN NaN ELSE a * a + b * b

\* Math.hypot(a, b) of two position differences, in 1/(10*PU)
HypotFine(a, b) == ISqrt(100 * (a * a + b * b))

\* Math.hypot(a, b) of two velocities, rounded up, in 1/VU
HypotUp(a, b) ==
    LET n == a * a + b * b
        r == ISqrt(n)
    IN  IF r * r = n THEN r ELSE r + 1

Min(a, b) == IF a < b THEN a ELSE b

Max(a, b) == IF a > b THEN a ELSE b

\* Math.cos(r * 2 * PI) and Math.sin(r * 2 * PI) in 1/VU, r in 1/RU,
\* for the quarter turns
Cos(r) == CASE r = 0 -> VU [] r = 250 -> 0 [] r = 500 -> -VU [] r = 750 -> 0

Sin(r) == CASE r = 0 -> 0 [] r = 250 -> VU [] r = 500 -> 0 [] r = 750 -> -VU

----------------------------------------------------------------------------
(* Bounds of the model *)

\* INITIAL_AGENTS (100 in the source), scaled down
INITIAL_AGENTS == 2
\* INITIAL_FOOD (60 in the source), scaled down
INITIAL_FOOD == 1
\* MAX_HERBIVORES_DEFAULT (220) and MAX_CARNIVORES_DEFAULT (80), scaled down
MAX_HERBIVORES_DEFAULT == 3
MAX_CARNIVORES_DEFAULT == 3
\* the capacity of the history (300 at line 628), scaled down
HISTORY_LIMIT == 1
\* ticks and world resets explored
MaxTicks == 2
MaxResets == 1
\* animation frames requested before the last Start explored
MaxFrames == 3
\* slider changes explored
MaxChanges == 2

----------------------------------------------------------------------------
(* State *)

VARIABLES
    agents,                   \* agentsRef.current
    food,                     \* foodRef.current
    history,                  \* historyRef.current
    nextId,                   \* nextIdRef.current
    isRunning,
    herbivoreSpeed,           \* 1/FU
    carnivoreSpeed,           \* 1/FU
    foodSpawnRate,            \* 1/RU
    timeScale,                \* 1/TU
    carnivoreMetabolismScale, \* 1/TU
    carnivoreCatchRadius,     \* world units
    carnivoreReproThreshold,  \* energy, whole
    maxCarnivores,
    herbivoreReproThreshold,  \* energy, whole
    maxHerbivores,
    framePending,             \* an animation frame callback is scheduled
                              \* (first variant)
    animationRef,             \* animationRef.current, 0 while unassigned
    frames,                   \* the requested animation frames that were
                              \* neither called nor cancelled
    pc,                       \* "idle", or "loop" inside update's agent loop
    idx,                      \* position of the for..of loop in agents
    updatedAgents,            \* locals of update
    eatenHerbivores,
    currentHerbivores,
    currentCarnivores,
    spawnedHerbivores,
    obs,                      \* what the last tick did, see NoTick
    issued,                   \* the ids given to agents so far, in order;
                              \* read by no action
    nextFoodObj,              \* identity of the next Food object created
    closure,                  \* the values the scheduled update closed over
    ticks,
    resets,
    changes                   \* slider changes made

world == <<agents, food, history, nextId>>

params == <<herbivoreSpeed, carnivoreSpeed, foodSpawnRate, timeScale,
            carnivoreMetabolismScale, carnivoreCatchRadius,
            carnivoreReproThreshold, maxCarnivores, herbivoreReproThreshold,
            maxHerbivores>>

locals == <<pc, idx, updatedAgents, eatenHerbivores, currentHerbivores,
            currentCarnivores, spawnedHerbivores>>

\* what only the first variant of the component, src/src/LifeSim.tsx, uses:
\* the second lists every value its update reads at line 676, so that its
\* update always closes over the current ones, and its sliders stay where
\* they are
basicOnly == <<closure, changes, framePending>>

vars == <<world, params, locals, obs, issued, isRunning, animationRef, frames,
          nextFoodObj, ticks, resets, basicOnly>>

----------------------------------------------------------------------------
(* Math.random(), in 1/RU *)

\* the draws of one world initialization: the type, the other fields of an
\* agent, the position of a food item
RandType == {0, 600, 950}
RandInit == {250}
RandFood == {255}

\* the draw that places a spawned food item
RandSpawn == {0}

\* the values of a draw that the code makes only when made holds
Draw(made, values) == IF made THEN values ELSE {0}

\* draws compared with a probability, draws that perturb a velocity, draws
\* of an angle, draws that size a child or a cooldown
RandChance == {0, 999}
RandWander == {500}
RandAngle == {0, 500}
RandAmount == {0, 999}

\* r - 0.5 times coef/1000, in thousandths
Centered(r, coef) == Div((r - 500) * coef, RU)

----------------------------------------------------------------------------
(* initializeWorld, lines 278-314 *)

BaseEnergy(type) ==
    IF type = "herbivore" THEN 50 ELSE IF type = "carnivore" THEN 55 ELSE 40

BaseMetabolism(type) ==
    IF type = "carnivore" THEN 28 ELSE IF type = "herbivore" THEN 14 ELSE 11

\* Math.max(0.02, base + (Math.random() - 0.5) * 0.03)
Metabolism(base, r) == Max(4, base + Centered(r, 6))

AgentType(typeRand) ==
    IF typeRand < 550 THEN "herbivore"
    ELSE IF typeRand < 900 THEN "neutral" ELSE "carnivore"

\* the agent pushed at lines 286-303; one draw r stands for the draws of
\* lines 288-301
InitialAgent(i, typeRand, r) ==
    LET type == AgentType(typeRand)
    IN  [id |-> i,
         x |-> Div(r * WORLD_WIDTH * PU, RU),
         y |-> Div(r * WORLD_HEIGHT * PU, RU),
         dx |-> Centered(r, 2 * VU),
         dy |-> Centered(r, 2 * VU),
         energy |-> BaseEnergy(type) * EU,
         age |-> 0,
         speed |-> Div(5 * SU, 10) + Div(r * 12 * SU, 10 * RU),
         vision |-> 40 * PU + Div(r * 20 * PU, RU),
         size |-> 500,
         type |-> type,
         reproCooldown |-> Div(r * 300, RU),
         metabolism |-> Metabolism(BaseMetabolism(type), r),
         lastAteTicks |-> Div(r * 200, RU),
         seedCooldown |-> IF type = "neutral" THEN 150 + Div(r * 200, RU)
                                               ELSE Undef,
         stuckTicks |-> 0]

InitialFood(i, r, obj) ==
    [id |-> i * RU,
     x |-> Div(r * WORLD_WIDTH * PU, RU),
     y |-> Div(r * WORLD_HEIGHT * PU, RU),
     obj |-> obj]

RECURSIVE InitialAgents(_, _)
\* the loop of lines 280-304 from i on; draws[i + 1] holds the draws of round i
InitialAgents(i, draws) ==
    IF i >= INITIAL_AGENTS THEN << >>
    ELSE <<InitialAgent(i, draws[i + 1][1], draws[i + 1][2])>>
             \o InitialAgents(i + 1, draws)

RECURSIVE InitialFoods(_, _, _)
InitialFoods(i, r, obj) ==
    IF i >= INITIAL_FOOD THEN << >>
    ELSE <<InitialFood(i, r, obj + i)>> \o InitialFoods(i + 1, r, obj)

----------------------------------------------------------------------------
(* Worlds the exploration starts from: the component after it has run for  *)
(* a while, with at most INITIAL_AGENTS agents left of those it created.   *)

Agent(type, x, y, dx, dy, energy, age, reproCooldown) ==
    [id |-> 0, x |-> x, y |-> y, dx |-> dx, dy |-> dy,
     energy |-> energy, age |-> age, speed |-> SU, vision |-> 50 * PU,
     size |-> 500, type |-> type, reproCooldown |-> reproCooldown,
     metabolism |-> BaseMetabolism(type), lastAteTicks |-> 0,
     seedCooldown |-> IF type = "neutral" THEN 0 ELSE Undef,
     stuckTicks |-> 0]

\* what a neutral agent with the base metabolism pays per tick at the
\* default time scale
NeutralDrain == 11 * TU * FU * 14

StartAgents ==
    { \* a herbivore ready to reproduce, in the corner, at full speed
      \* toward the wall
      Agent("herbivore", 1 * PU, 1 * PU, -2500, 0, 200 * EU, 0, 0),
      \* a carnivore ready to reproduce, within the catch radius of it
      Agent("carnivore", 3 * PU, 1 * PU, 500, 0, 200 * EU, 0, 0),
      \* a neutral agent in the corner, ready to seed, two ticks before
      \* the age limit, with the energy it pays in one tick
      Agent("neutral", 1 * PU, 1 * PU, 500, 0, NeutralDrain,
            AgeLimit - 2, 0) }

\* ids in array order, as initializeWorld and the ticks leave them
WithIds(seq) == [i \in DOMAIN seq |-> [seq[i] EXCEPT !.id = i - 1]]

StartWorlds ==
    UNION { { WithIds(s) : s \in [1..n -> StartAgents] } : n \in 1..INITIAL_AGENTS }

\* The record of a tick, kept for the properties below and read by no
\* action:
\*   start      the agent set the tick began with
\*   caps       maxHerbivores and maxCarnivores of the tick
\*   catches    <<carnivore id, prey id>> of every catch
\*   feeds      <<herbivore id, food item>> of every feed
\*   processed  id, type, energy and age of each agent after metabolism,
\*              the wander draw rw and the velocity after steering
\*   births     parent id, child id, whether the parent was in
\*              eatenHerbivores when its round began, and the child object
\*              as it was made, of every child
\*   eaten      eatenHerbivores, spawned: spawnedHerbivores, output:
\*              updatedAgents, when the loop ended
\*   food0      the contents of foodRef.current when update was called,
\*   foodLoop   and when the agent loop began
\*   prior      the objects of the agent set the tick began with, as the
\*              tick left them
\*   history0   the history when update was called
\*   seeded     the id of the agent of every push to foodRef.current in the
\*              agent loop
\*   done       the tick ran to its end, on the world that is current
NoTick ==
    [start |-> << >>, caps |-> <<0, 0>>, catches |-> {}, feeds |-> << >>,
     processed |-> << >>, births |-> {}, eaten |-> {}, spawned |-> 0,
     output |-> << >>, food0 |-> << >>, foodLoop |-> << >>,
     prior |-> << >>, history0 |-> << >>, seeded |-> << >>, done |-> FALSE]

\* line 287: the ids initializeWorld gives, in the order of its loop
InitialIds == [i \in 1..INITIAL_AGENTS |-> i - 1]

\* the refs, the state and update's locals when no tick has run yet
Constructed ==
    /\ food = << >>
    /\ history = << >>
    /\ nextId = INITIAL_AGENTS
    /\ issued = InitialIds
    /\ isRunning = FALSE
    /\ herbivoreSpeed = FU
    /\ carnivoreSpeed = FU
    /\ foodSpawnRate = 20
    /\ timeScale = 14
    /\ carnivoreMetabolismScale = TU
    /\ carnivoreCatchRadius = 8
    /\ carnivoreReproThreshold = 180
    /\ maxCarnivores = MAX_CARNIVORES_DEFAULT
    /\ herbivoreReproThreshold = 150
    /\ maxHerbivores = MAX_HERBIVORES_DEFAULT
    /\ framePending = FALSE
    /\ animationRef = 0
    /\ frames = {}
    /\ pc = "idle"
    /\ idx = 0
    /\ updatedAgents = << >>
    /\ eatenHerbivores = {}
    /\ currentHerbivores = 0
    /\ currentCarnivores = 0
    /\ spawnedHerbivores = 0
    /\ obs = NoTick
    /\ nextFoodObj = 0
    /\ ticks = 0
    /\ resets = 0
    /\ closure = [isRunning |-> FALSE, herbivoreSpeed |-> FU,
                  carnivoreSpeed |-> FU, foodSpawnRate |-> 20,
                  timeScale |-> 14]
    /\ changes = 0

Init ==
    /\ agents \in StartWorlds
    /\ Constructed

----------------------------------------------------------------------------
(* update, lines 326-668: perception and steering *)

Def(v) == IF v = Undef THEN 0 ELSE v

OfType(as, type) == SelectSeq(as, LAMBDA a : a.type = type)

RECURSIVE ReduceNearest(_, _, _, _, _)
\* items.reduce((closest, f) => d(f) < d(closest) ? f : closest), from the
\* k-th item on
ReduceNearest(items, k, closest, x, y) ==
    IF k > Len(items) THEN closest
    ELSE LET d == Hypot2(NSub(items[k].x, x), NSub(items[k].y, y))
             c == Hypot2(NSub(closest.x, x), NSub(closest.y, y))
         IN  ReduceNearest(items, k + 1,
                           IF NLt(d, c) THEN items[k] ELSE closest, x, y)

Nearest(items, x, y) == ReduceNearest(items, 2, items[1], x, y)

\* (delta / dist) * coef/1000 for dist = hypot(ex, ey) > 0, in thousandths
Toward(delta, ex, ey, coef) == Div(delta * 10 * coef, HypotFine(ex, ey))

\* delta / (dist || 1) in thousandths
UnitOr1(delta, ex, ey) ==
    IF Hypot2(ex, ey) = 0 THEN delta * 100 ELSE Toward(delta, ex, ey, 1000)

\* dist < vision * 0.9, dist given by its square
WithinFleeRange(d2, vision) ==
    NLt(d2, 1000000) /\ 100 * d2 < 81 * vision * vision

\* lines 358-369: a herbivore accelerates toward the nearest food in sight;
\* (nearestFood.x - x) / dist is 0 / 0 when the food lies on the herbivore
HerbivoreForage(a, v, foodNow) ==
    IF Len(foodNow) = 0 THEN v
    ELSE LET nf == Nearest(foodNow, a.x, a.y)
             ex == NSub(nf.x, a.x)
             ey == NSub(nf.y, a.y)
             d2 == Hypot2(ex, ey)
         IN  IF ~NLt(d2, a.vision * a.vision) THEN v
             ELSE IF d2 = 0
                  THEN [dx |-> NaN, dy |-> NaN, pursuing |-> TRUE]
                  ELSE [dx |-> NAdd(v.dx, Toward(ex, ex, ey, 450)),
                        dy |-> NAdd(v.dy, Toward(ey, ex, ey, 450)),
                        pursuing |-> TRUE]

\* lines 372-386: a herbivore flees from the nearest carnivore
HerbivoreFlee(a, v, agentsNow) ==
    LET hunters == OfType(agentsNow, "carnivore")
    IN  IF Len(hunters) = 0 THEN v
        ELSE LET nh == Nearest(hunters, a.x, a.y)
                 ex == NSub(nh.x, a.x)
                 ey == NSub(nh.y, a.y)
                 pd2 == Hypot2(ex, ey)
             IN  IF ~WithinFleeRange(pd2, a.vision) THEN v
                 ELSE [v EXCEPT
                         !.dx = NSub(@, Div(UnitOr1(ex, ex, ey) * 35, 100)),
                         !.dy = NSub(@, Div(UnitOr1(ey, ex, ey) * 35, 100))]

\* lines 414-427: a carnivore is repelled by food closer than 12
CarnivoreAvoidFood(a, v, foodNow) ==
    IF Len(foodNow) = 0 THEN v
    ELSE LET nf == Nearest(foodNow, a.x, a.y)
             ex == NSub(nf.x, a.x)
             ey == NSub(nf.y, a.y)
             fd2 == Hypot2(ex, ey)
         IN  IF ~NLt(fd2, (12 * PU) * (12 * PU)) THEN v
             ELSE [v EXCEPT
                     !.dx = NSub(@, Div(UnitOr1(ex, ex, ey) * 5, 10)),
                     !.dy = NSub(@, Div(UnitOr1(ey, ex, ey) * 5, 10))]

\* lines 388-433: a carnivore pursues the nearest herbivore in sight, and
\* wanders otherwise
CarnivoreHunt(a, v, agentsNow, foodNow, rx, ry) ==
    LET prey == OfType(agentsNow, "herbivore")
        wander == [v EXCEPT !.dx = NAdd(@, Centered(rx, 60)),
                            !.dy = NAdd(@, Centered(ry, 60))]
    IN  IF Len(prey) = 0 THEN wander
        ELSE LET nearest == Nearest(prey, a.x, a.y)
                 ex == NSub(nearest.x, a.x)
                 ey == NSub(nearest.y, a.y)
                 d2 == Hypot2(ex, ey)
                 ux == UnitOr1(ex, ex, ey)
                 uy == UnitOr1(ey, ex, ey)
                 bx == NAdd(NScale(v.dx, 85, 100), Div(ux * 7, 10))
                 by == NAdd(NScale(v.dy, 85, 100), Div(uy * 7, 10))
                 slow == NLt(Hypot2(bx, by), 250 * 250)
                 steered ==
                     IF NLt(d2, a.vision * a.vision)
                     THEN [dx |-> IF slow THEN NAdd(bx, Div(ux * 6, 10)) ELSE bx,
                           dy |-> IF slow THEN NAdd(by, Div(uy * 6, 10)) ELSE by,
                           pursuing |-> TRUE]
                     ELSE wander
             IN  CarnivoreAvoidFood(a, steered, foodNow)

\* lines 436-437
NeutralDrift(v, rx, ry) ==
    [v EXCEPT !.dx = NAdd(@, Centered(rx, 100)),
              !.dy = NAdd(@, Centered(ry, 100))]

\* lines 450-456
BaselineWander(type, v, rx, ry) ==
    LET baseWander == IF type = "neutral" THEN 120 ELSE 60
        searchBoost == IF type = "carnivore" /\ ~v.pursuing THEN 2 ELSE 1
        wanderStrength == IF v.pursuing THEN Div(baseWander * 15, 100)
                                        ELSE baseWander * searchBoost
    IN  [v EXCEPT !.dx = NAdd(@, Centered(rx, wanderStrength)),
                  !.dy = NAdd(@, Centered(ry, wanderStrength))]

\* lines 357-456, the velocity of the agent after steering
Steer(a, agentsNow, foodNow, rx, ry) ==
    LET v0 == [dx |-> a.dx, dy |-> a.dy, pursuing |-> FALSE]
        v1 == IF a.type = "herbivore"
              THEN HerbivoreFlee(a, HerbivoreForage(a, v0, foodNow), agentsNow)
              ELSE IF a.type = "carnivore"
              THEN CarnivoreHunt(a, v0, agentsNow, foodNow, rx, ry)
              ELSE NeutralDrift(v0, rx, ry)
    IN  BaselineWander(a.type, v1, rx, ry)

----------------------------------------------------------------------------
(* update: kinematics, lines 354-355 and 458-494 *)

\* speed * multiplier, in 1/(SU*FU)
AdjustedSpeed(a) ==
    IF a.type = "herbivore" THEN a.speed * herbivoreSpeed
    ELSE IF a.type = "carnivore" THEN a.speed * carnivoreSpeed
    ELSE a.speed * 8

MaxVel(type) == IF type = "carnivore" THEN 3200 ELSE 2500

\* lines 464-470: the velocity scaled back to maxVel when it is above it
CapVelocity(type, dx, dy) ==
    IF NGt(Hypot2(dx, dy), MaxVel(type) * MaxVel(type))
    THEN [dx |-> Div(dx * MaxVel(type), HypotUp(dx, dy)),
          dy |-> Div(dy * MaxVel(type), HypotUp(dx, dy))]
    ELSE [dx |-> dx, dy |-> dy]

\* lines 488-494: reflection at the walls, clamp and inward nudge
Bounce(p, d, limit) ==
    LET d1 == IF NLt(p, 0) \/ NGt(p, limit) THEN NNeg(d) ELSE d
        lo == NLt(p, 1 * PU)
        p2 == IF lo THEN 1 * PU ELSE p
        d2 == IF lo THEN NAdd(NAbs(d1), 200) ELSE d1
        hi == NGt(p2, limit - 1 * PU)
    IN  [p |-> IF hi THEN limit - 1 * PU ELSE p2,
         d |-> IF hi THEN NSub(NNeg(NAbs(d2)), 200) ELSE d2]

\* lines 461-466: spd, squared, of the damped velocity
DampedSpeed2(v) == Hypot2(NScale(v.dx, 97, 100), NScale(v.dy, 97, 100))

\* line 472
Kicked(v) == NLt(DampedSpeed2(v), 80 * 80)

\* lines 479-480
StuckTicks(a, v) ==
    IF NLt(DampedSpeed2(v), 120 * 120) THEN Def(a.stuckTicks) + 1
    ELSE IF Def(a.stuckTicks) > 0 THEN Def(a.stuckTicks) - 1
    ELSE Def(a.stuckTicks)

\* line 481
Unstuck(a, v) == StuckTicks(a, v) > 60

\* lines 458-494: position, velocity and stuck counter after the move
Move(a, v, angleKick, angleStuck) ==
    LET step == AdjustedSpeed(a) * timeScale
        unit == (VU * SU * FU * TU) \div PU
        x1 == NAdd(a.x, NScale(v.dx, step, unit))
        y1 == NAdd(a.y, NScale(v.dy, step, unit))
        capped == CapVelocity(a.type, NScale(v.dx, 97, 100),
                              NScale(v.dy, 97, 100))
        dx2 == IF Kicked(v)
               THEN NAdd(capped.dx, Div(Cos(angleKick) * 350, VU))
               ELSE capped.dx
        dy2 == IF Kicked(v)
               THEN NAdd(capped.dy, Div(Sin(angleKick) * 350, VU))
               ELSE capped.dy
        dx3 == IF Unstuck(a, v) THEN NAdd(dx2, Cos(angleStuck)) ELSE dx2
        dy3 == IF Unstuck(a, v) THEN NAdd(dy2, Sin(angleStuck)) ELSE dy2
        bx == Bounce(x1, dx3, WORLD_WIDTH * PU)
        by == Bounce(y1, dy3, WORLD_HEIGHT * PU)
    IN  [x |-> bx.p, y |-> by.p, dx |-> bx.d, dy |-> by.d,
         stuckTicks |-> IF Unstuck(a, v) THEN 0 ELSE StuckTicks(a, v)]

----------------------------------------------------------------------------
(* update: feeding, reproduction, metabolism, lines 435-448 and 496-617 *)

Now == 1000 + ticks

\* a seed whenever the draw allows it, cooldown or not; the wait between
\* two seeds does not survive it
SeedsAnytime(a, rSeed) == rSeed < 20

\* lines 439-445: the seed cooldown of a neutral agent after this tick, and
\* whether it seeds
Seeds(a, rSeed) == Def(a.seedCooldown) <= 0 /\ rSeed < 20

SeedCooldownAfter(a, rSeed, rAmount) ==
    IF Seeds(a, rSeed) THEN 250 + Div(rAmount * 200, RU)
    ELSE IF a.seedCooldown # Undef /\ a.seedCooldown > 0
         THEN a.seedCooldown - 1 ELSE a.seedCooldown

Splice(seq, i) == SubSeq(seq, 1, i - 1) \o SubSeq(seq, i + 1, Len(seq))

RECURSIVE FirstFoodWithin(_, _, _, _)
\* lines 497-500: the first index from i on of a food item closer than 8,
\* or 0
FirstFoodWithin(foodNow, i, x, y) ==
    IF i > Len(foodNow) THEN 0
    ELSE IF NLt(Hypot2(NSub(foodNow[i].x, x), NSub(foodNow[i].y, y)),
                (8 * PU) * (8 * PU))
         THEN i
         ELSE FirstFoodWithin(foodNow, i + 1, x, y)

\* a feed that clears the array; the count of one item per feed does not
\* survive it
FoodAfterFeedCleared(foodNow, i) == << >>

\* a feed that leaves the item in the array; the at-most-once property of
\* feeding does not survive it
FoodAfterFeedKept(foodNow, i) == foodNow

\* line 502
FoodAfterFeed(foodNow, i) == Splice(foodNow, i)

RECURSIVE FirstPreyWithin(_, _, _, _)
\* lines 539-543: the first index from i on of a herbivore closer than the
\* catch radius, or 0
FirstPreyWithin(agentsNow, i, x, y) ==
    IF i > Len(agentsNow) THEN 0
    ELSE IF /\ agentsNow[i].type = "herbivore"
            /\ NLt(Hypot2(NSub(agentsNow[i].x, x), NSub(agentsNow[i].y, y)),
                   (carnivoreCatchRadius * PU) * (carnivoreCatchRadius * PU))
         THEN i
         ELSE FirstPreyWithin(agentsNow, i + 1, x, y)

\* a guard that forgets the children of this tick; the herbivore cap does
\* not survive it
HerbivoreReproducesUncounted(energy, reproCooldown, spawned) ==
    /\ energy > herbivoreReproThreshold * EU
    /\ reproCooldown <= 0
    /\ currentHerbivores < maxHerbivores

\* a test that does not read the cooldown; the wait between two
\* reproductions does not survive it
HerbivoreReproducesOnCooldown(energy, reproCooldown, spawned) ==
    /\ energy > herbivoreReproThreshold * EU
    /\ currentHerbivores + spawned < maxHerbivores

\* lines 509-513
HerbivoreReproduces(energy, reproCooldown, spawned) ==
    /\ energy > herbivoreReproThreshold * EU
    /\ reproCooldown <= 0
    /\ currentHerbivores + spawned < maxHerbivores

\* a test that leaves the gain of the catch out of the energy; reproduction
\* on the energy after feeding does not survive it
CarnivoreReproducesUnfed(energy, reproCooldown) ==
    /\ energy - 45 * EU > carnivoreReproThreshold * EU
    /\ reproCooldown <= 0
    /\ currentCarnivores < maxCarnivores

\* lines 553-557
CarnivoreReproduces(energy, reproCooldown) ==
    /\ energy > carnivoreReproThreshold * EU
    /\ reproCooldown <= 0
    /\ currentCarnivores < maxCarnivores

\* an inheritance that is not clamped; the range of a child's speed and
\* vision does not survive it
InheritUnclamped(value, r, lo, hi) == Div(value * (9500 + r), 10 * RU)

\* speed * (0.95 + Math.random() * 0.1), clamped
Inherit(value, r, lo, hi) == Max(lo, Min(hi, Div(value * (9500 + r), 10 * RU)))

\* a child that has lived through the tick of its birth; the birth values
\* of the output do not survive it
HerbivoreChildGrown(id, a, m, r) ==
    [id |-> id,
     x |-> NAdd(m.x, Centered(r, 10 * PU)),
     y |-> NAdd(m.y, Centered(r, 10 * PU)),
     dx |-> NAdd(m.dx, Centered(r, 500)),
     dy |-> NAdd(m.dy, Centered(r, 500)),
     energy |-> 35 * EU - 14 * TU * FU * timeScale,
     age |-> 1,
     speed |-> a.speed,
     vision |-> a.vision,
     size |-> 500,
     type |-> "herbivore",
     reproCooldown |-> 599,
     metabolism |-> 14,
     lastAteTicks |-> 1,
     seedCooldown |-> Undef,
     stuckTicks |-> 0]

\* lines 514-530
HerbivoreChild(id, a, m, r) ==
    [id |-> id,
     x |-> NAdd(m.x, Centered(r, 10 * PU)),
     y |-> NAdd(m.y, Centered(r, 10 * PU)),
     dx |-> NAdd(m.dx, Centered(r, 500)),
     dy |-> NAdd(m.dy, Centered(r, 500)),
     energy |-> 35 * EU,
     age |-> 0,
     speed |-> Inherit(a.speed, r, 40, 200),
     vision |-> Inherit(a.vision, r, 30 * PU, 70 * PU),
     size |-> 500,
     type |-> "herbivore",
     reproCooldown |-> 600,
     metabolism |-> Metabolism(14, r),
     lastAteTicks |-> Undef,
     seedCooldown |-> Undef,
     stuckTicks |-> Undef]

\* lines 558-577
CarnivoreChild(id, a, m, r) ==
    [id |-> id,
     x |-> NAdd(m.x, Centered(r, 10 * PU)),
     y |-> NAdd(m.y, Centered(r, 10 * PU)),
     dx |-> NAdd(m.dx, Centered(r, 500)),
     dy |-> NAdd(m.dy, Centered(r, 500)),
     energy |-> 70 * EU,
     age |-> 0,
     speed |-> Inherit(a.speed, r, 60, 220),
     vision |-> Inherit(a.vision, r, 50 * PU, 90 * PU),
     size |-> 500,
     type |-> "carnivore",
     reproCooldown |-> 700,
     metabolism |-> Metabolism(28, r),
     lastAteTicks |-> 0,
     seedCooldown |-> Undef,
     stuckTicks |-> 0]

\* line 585, in hundredths
SizeFromEnergy(energy) == Max(300, Min(1000, 300 + Div(energy * 3, EU)))

\* lines 598-606, in 1/FU
StarvationFactor(type, lastAteTicks) ==
    IF type # "carnivore" THEN 0
    ELSE (IF currentHerbivores = 0 THEN 12 ELSE 0)
         + (IF lastAteTicks > 900 THEN 10
            ELSE IF lastAteTicks > 600 THEN 6
            ELSE IF lastAteTicks > 300 THEN 3 ELSE 0)

\* a metabolism that costs nothing; starvation does not survive it
DrainFree(type, metabolism, lastAteTicks) == 0

\* line 607: what the agent pays this tick
Drain(type, metabolism, lastAteTicks) ==
    (IF type = "carnivore" THEN metabolism * carnivoreMetabolismScale
                           ELSE metabolism * TU)
     * (FU + StarvationFactor(type, lastAteTicks)) * timeScale

\* a counter that does not move; the uniqueness of ids does not survive it
NextIdAfterStuck(id) == id

\* lines 517 and 561: nextIdRef.current++ leaves the counter one higher
NextIdAfter(id) == id + 1

\* a filter that keeps an agent at energy 0; the survival law of the
\* output does not survive it
SurvivesAtZero(energy, age) == energy >= 0 /\ age < AgeLimit

\* a filter that drops an agent one tick early; the causes of absence do
\* not survive it
SurvivesYounger(energy, age) ==
    energy > 0 /\ age < AgeLimit - 1

\* a filter that does not read the age; the end of every agent does not
\* survive it
SurvivesAtAnyAge(energy, age) == energy > 0

\* line 611
Survives(energy, age) == energy > 0 /\ age < AgeLimit

\* line 612
SkippedAsEaten(type, id, eaten) == type = "herbivore" /\ id \in eaten

----------------------------------------------------------------------------
(* Animation frames, lines 667-675 *)

\* a cancel that cancels nothing; the single pending frame does not survive
\* it
CancelNothing(ref, pending) == pending

\* lines 671 and 674: if (animationRef.current)
\* cancelAnimationFrame(animationRef.current); cancelling a frame that was
\* called or cancelled before does nothing
Cancel(ref, pending) == IF ref # 0 THEN pending \ {ref} ELSE pending

\* requestAnimationFrame returns an id it never returned before; every id
\* this component is given is stored in animationRef.current
FrameAfter(ref) == ref + 1

\* lines 670-675, when a value of the dependency list of line 676 has
\* changed: the cleanup of the effect that ran before, then the new effect
Effect(running) ==
    LET cleaned == Cancel(animationRef, frames)
    IN  /\ animationRef' = IF running THEN FrameAfter(animationRef)
                                      ELSE animationRef
        /\ frames' = IF running THEN cleaned \cup {FrameAfter(animationRef)}
                                ELSE Cancel(animationRef, cleaned)

----------------------------------------------------------------------------
(* update, one animation frame *)

\* lines 330-331, in 1/FU
ScarcityBoost(herbCount) ==
    IF herbCount < 40 THEN 30 ELSE IF herbCount < 70 THEN 18 ELSE 10

\* lines 326-346: the frame callback starts; food spawn and the locals
TickBegin ==
    /\ pc = "idle"
    /\ ticks < MaxTicks
    /\ \E frame \in frames : frames' = frames \ {frame}
    /\ \E r \in RandChance, rp \in RandSpawn :
         LET herbCount == Len(OfType(agents, "herbivore"))
             spawn == r * FU < foodSpawnRate * ScarcityBoost(herbCount)
             item == [id |-> Now * RU,
                      x |-> Div(rp * WORLD_WIDTH * PU, RU),
                      y |-> Div(rp * WORLD_HEIGHT * PU, RU),
                      obj |-> nextFoodObj]
         IN  /\ food' = IF spawn THEN Append(food, item) ELSE food
             /\ nextFoodObj' = IF spawn THEN nextFoodObj + 1 ELSE nextFoodObj
             /\ obs' = [NoTick EXCEPT
                          !.start = agents,
                          !.caps = <<maxHerbivores, maxCarnivores>>,
                          !.food0 = food,
                          !.foodLoop = IF spawn THEN Append(food, item)
                                                ELSE food,
                          !.history0 = history]
    /\ updatedAgents' = << >>
    /\ eatenHerbivores' = {}
    /\ currentHerbivores' = Len(OfType(agents, "herbivore"))
    /\ currentCarnivores' = Len(OfType(agents, "carnivore"))
    /\ spawnedHerbivores' = 0
    /\ idx' = 1
    /\ pc' = "loop"
    /\ UNCHANGED <<agents, history, nextId, params, isRunning, issued, ticks,
                   resets, animationRef, basicOnly>>

\* lines 508-617 of one round: reproduction, size, metabolism and the
\* survival filter, for the agent moved to m, after the feed on food1[fed]
\* and the catch of agents[caught] (0: none)
Settle(agent, m, seeds, food1, seedCooldown, energy1, fed, caught, rm) ==
    LET type == agent.type
        eaten == IF caught > 0
                 THEN eatenHerbivores \cup {agents[caught].id}
                 ELSE eatenHerbivores
        energy2 == IF fed > 0 THEN energy1 + 35 * EU
                   ELSE IF caught > 0 THEN energy1 + 45 * EU
                   ELSE energy1
        lastAteTicks == (IF fed > 0 \/ caught > 0 THEN 0
                         ELSE Def(agent.lastAteTicks)) + 1
        \* 508-535 and 552-581
        reproduces ==
            \/ /\ type = "herbivore"
               /\ HerbivoreReproduces(energy2, agent.reproCooldown,
                                      spawnedHerbivores)
            \/ /\ type = "carnivore"
               /\ CarnivoreReproduces(energy2, agent.reproCooldown)
        energy3 == IF ~reproduces THEN energy2
                   ELSE IF type = "herbivore" THEN 45 * EU ELSE 90 * EU
        cooldown == IF ~reproduces THEN agent.reproCooldown
                    ELSE IF type = "herbivore" THEN 600 ELSE 700
        \* 584-609
        energy == energy3 - Drain(type, agent.metabolism, lastAteTicks)
        age == agent.age + 1
    IN  [seedCooldown |-> seedCooldown,
         food |-> IF fed > 0 THEN FoodAfterFeed(food1, fed) ELSE food1,
         seeds |-> seeds,
         reproduces |-> reproduces,
         born |-> IF reproduces
                  THEN {[parent |-> agent.id, child |-> nextId,
                         marked |-> agent.id \in eatenHerbivores,
                         made |-> IF type = "herbivore"
                                  THEN HerbivoreChild(nextId, agent, m, rm)
                                  ELSE CarnivoreChild(nextId, agent, m, rm)]}
                  ELSE {},
         eaten |-> eaten,
         pushed |->
             (IF ~reproduces THEN << >>
              ELSE IF type = "herbivore"
                   THEN <<HerbivoreChild(nextId, agent, m, rm)>>
                   ELSE <<CarnivoreChild(nextId, agent, m, rm)>>)
             \o (\* 611-617
                 IF /\ Survives(energy, age)
                    /\ ~SkippedAsEaten(type, agent.id, eaten)
                 THEN <<[agent EXCEPT
                           !.x = m.x, !.y = m.y, !.dx = m.dx, !.dy = m.dy,
                           !.energy = energy, !.age = age,
                           !.size = SizeFromEnergy(energy3),
                           !.reproCooldown = IF cooldown > 0
                                             THEN cooldown - 1 ELSE cooldown,
                           !.lastAteTicks = lastAteTicks,
                           !.stuckTicks = m.stuckTicks,
                           !.seedCooldown = seedCooldown]>>
                 ELSE << >>),
         caught |-> IF caught > 0 THEN {<<agent.id, agents[caught].id>>}
                    ELSE {},
         fed |-> IF fed > 0 THEN <<(<<agent.id, food1[fed]>>)>>
                 ELSE << >>,
         energy |-> energy,
         age |-> age]

\* lines 435-448, 496-506 and 538-550 of one round: the seed and the gain
\* of a neutral agent, the feed of a herbivore, the catch of a carnivore,
\* for the agent moved to m
Encounter(agent, m, rs, rg, rm) ==
    LET type == agent.type
        seeds == type = "neutral" /\ Seeds(agent, rs)
        food1 == IF seeds
                 THEN Append(food, [id |-> Now * RU + rm, x |-> agent.x,
                                    y |-> agent.y, obj |-> nextFoodObj])
                 ELSE food
    IN  Settle(agent, m, seeds, food1,
               IF type = "neutral" THEN SeedCooldownAfter(agent, rs, rm)
                                   ELSE agent.seedCooldown,
               IF type = "neutral" /\ rg < 2 THEN agent.energy + 5 * EU
                                             ELSE agent.energy,
               IF type = "herbivore"
               THEN FirstFoodWithin(food1, 1, m.x, m.y) ELSE 0,
               IF type = "carnivore"
               THEN FirstPreyWithin(agents, 1, m.x, m.y) ELSE 0,
               rm)

\* lines 347-618: one round of the loop over agentsRef.current, with the
\* draws rw (wander, lines 411-456), rs (seeding, 440), rg (energy gain,
\* 447), ra (angle, 473 and 482) and rm (seed cooldown, 442; the child,
\* 514-529; the fraction of the seed's id, 441)
Iteration(agent, rw, rs, rg, ra, rm) ==
    Encounter(agent,
              Move(agent, Steer(agent, agents, food, rw, rw), ra, ra),
              rs, rg, rm)

\* lines 472 and 481: the round draws an angle
DrawsAngle(agent, v) == Kicked(v) \/ Unstuck(agent, v)

\* lines 441 and 514: the round draws a seed's or a child's amounts
DrawsAmount(it) == it.seeds \/ it.reproduces

\* what one round leaves behind: the refs it wrote and the locals of update
Commit(agent, it, rw, v) ==
    /\ agents' = [agents EXCEPT ![idx].seedCooldown = it.seedCooldown]
    /\ food' = it.food
    /\ nextFoodObj' = IF it.seeds THEN nextFoodObj + 1 ELSE nextFoodObj
    /\ nextId' = IF it.reproduces THEN NextIdAfter(nextId) ELSE nextId
    /\ issued' = IF it.reproduces THEN Append(issued, nextId) ELSE issued
    /\ spawnedHerbivores' =
           IF it.reproduces /\ agent.type = "herbivore"
           THEN spawnedHerbivores + 1
           ELSE spawnedHerbivores
    /\ eatenHerbivores' = it.eaten
    /\ updatedAgents' = updatedAgents \o it.pushed
    /\ obs' = [obs EXCEPT
                 !.catches = @ \cup it.caught,
                 !.feeds = @ \o it.fed,
                 !.births = @ \cup it.born,
                 !.seeded = IF it.seeds THEN Append(@, agent.id) ELSE @,
                 !.processed = Append(@, [id |-> agent.id,
                                          type |-> agent.type,
                                          energy |-> it.energy,
                                          age |-> it.age,
                                          rw |-> rw,
                                          dx |-> v.dx,
                                          dy |-> v.dy])]

ProcessAgent ==
    /\ pc = "loop"
    /\ idx <= Len(agents)
    /\ \E rw \in RandWander,
          rs \in Draw(/\ agents[idx].type = "neutral"
                      /\ Def(agents[idx].seedCooldown) <= 0, RandChance),
          rg \in Draw(agents[idx].type = "neutral", RandChance) :
         \E ra \in Draw(DrawsAngle(agents[idx],
                                   Steer(agents[idx], agents, food, rw, rw)),
                        RandAngle),
            rm \in Draw(DrawsAmount(Iteration(agents[idx], rw, rs, rg, 0, 0)),
                        RandAmount) :
              Commit(agents[idx], Iteration(agents[idx], rw, rs, rg, ra, rm),
                     rw, Steer(agents[idx], agents, food, rw, rw))
    /\ idx' = idx + 1
    /\ UNCHANGED <<history, params, isRunning, animationRef, frames, pc,
                   currentHerbivores, currentCarnivores, ticks, resets,
                   basicOnly>>

\* lines 623-625: the population counts of an agent set
Sample(agentsNow) ==
    [herb |-> Len(OfType(agentsNow, "herbivore")),
     carn |-> Len(OfType(agentsNow, "carnivore")),
     neutral |-> Len(OfType(agentsNow, "neutral"))]

\* a history that is never shortened; its bound does not survive it
HistoryAfterKept(hist, sample) == Append(hist, sample)

\* lines 626-628: hist.push(sample); if (hist.length > HISTORY_LIMIT)
\* hist.shift()
HistoryAfter(hist, sample) ==
    IF Len(hist) + 1 > HISTORY_LIMIT THEN Tail(Append(hist, sample))
                                     ELSE Append(hist, sample)

\* lines 620-628 and 667: the loop is over; the new agent set, the history
\* sample, the next frame; update returns and its locals are gone
TickEnd ==
    /\ pc = "loop"
    /\ idx > Len(agents)
    /\ agents' = updatedAgents
    /\ history' = HistoryAfter(history, Sample(updatedAgents))
    /\ animationRef' = IF isRunning THEN FrameAfter(animationRef)
                                   ELSE animationRef
    /\ frames' = IF isRunning THEN frames \cup {FrameAfter(animationRef)}
                             ELSE frames
    /\ pc' = "idle"
    /\ idx' = 0
    /\ updatedAgents' = << >>
    /\ eatenHerbivores' = {}
    /\ currentHerbivores' = 0
    /\ currentCarnivores' = 0
    /\ spawnedHerbivores' = 0
    /\ obs' = [obs EXCEPT !.eaten = eatenHerbivores,
                          !.spawned = spawnedHerbivores,
                          !.output = updatedAgents,
                          !.prior = agents,
                          !.done = TRUE]
    /\ ticks' = ticks + 1
    /\ UNCHANGED <<food, nextId, params, isRunning, nextFoodObj, issued,
                   resets, basicOnly>>

----------------------------------------------------------------------------
(* Buttons, lines 670-680 and 693-695 *)

\* Start: setIsRunning(true); the effect requests a frame
Start ==
    /\ pc = "idle"
    /\ ~isRunning
    /\ animationRef < MaxFrames
    /\ isRunning' = TRUE
    /\ Effect(TRUE)
    /\ UNCHANGED <<world, params, locals, obs, issued, nextFoodObj, ticks,
                   resets, basicOnly>>

\* Pause: setIsRunning(false); the cleanup cancels the requested frame
Pause ==
    /\ pc = "idle"
    /\ isRunning
    /\ isRunning' = FALSE
    /\ Effect(FALSE)
    /\ UNCHANGED <<world, params, locals, obs, issued, nextFoodObj, ticks,
                   resets, basicOnly>>

\* Reset wereld: initializeWorld
ResetWorld ==
    /\ pc = "idle"
    /\ resets < MaxResets
    /\ \E draws \in [1..INITIAL_AGENTS -> RandType \X RandInit],
          rf \in RandFood :
         /\ agents' = InitialAgents(0, draws)
         /\ food' = InitialFoods(0, rf, 0)
    \* the Food objects of the old world are unreachable from here on
    /\ nextFoodObj' = INITIAL_FOOD
    /\ history' = << >>
    /\ obs' = NoTick
    /\ issued' = issued \o InitialIds
    /\ resets' = resets + 1
    /\ UNCHANGED <<nextId, params, locals, isRunning, animationRef, frames,
                   ticks, basicOnly>>

Next ==
    \/ TickBegin
    \/ ProcessAgent
    \/ TickEnd
    \/ Start
    \/ Pause
    \/ ResetWorld

Spec == Init /\ [][Next]_vars

----------------------------------------------------------------------------
(* The end of a world without prey: the same component, started from       *)
(* worlds in which no herbivore is left and the carnivores have the energy *)
(* of one or two more ticks.  A requested animation frame is called and    *)
(* update runs to its end: the steps of a tick are weakly fair.            *)

\* what a carnivore with the base metabolism pays per tick at the default
\* scales when no herbivore is left (starvationFactor 1.2)
CarnivoreDrain == 28 * TU * (FU + 12) * 14

StarvingAgents ==
    { Agent("carnivore", 3 * PU, 1 * PU, 500, 0, CarnivoreDrain, 0, 0),
      Agent("carnivore", 3 * PU, 1 * PU, 500, 0, 2 * CarnivoreDrain, 0, 0),
      Agent("neutral", 1 * PU, 1 * PU, 500, 0, 200 * EU, 0, 0) }

StarvingWorlds ==
    UNION { { WithIds(s) : s \in [1..n -> StarvingAgents] } :
                n \in 1..INITIAL_AGENTS }

InitStarve ==
    /\ agents \in StarvingWorlds
    /\ Constructed

\* what TickBegin, ProcessAgent and TickEnd do to the loop position: of the
\* steps of Next, these and only these change idx, and one of them is
\* enabled exactly when this is
TickStep ==
    /\ pc = "loop" \/ (pc = "idle" /\ frames # {} /\ ticks < MaxTicks)
    /\ idx' = IF pc = "idle" THEN 1
              ELSE IF idx > Len(agents) THEN 0 ELSE idx + 1

SpecStarve == InitStarve /\ [][Next]_vars /\ WF_idx(TickStep)

----------------------------------------------------------------------------
(* The same program started on agents whose energy is below the
   reproduction threshold of their kind and above it after one feed *)

HungryAgents ==
    { \* a herbivore 35 short of nothing: 140 + 35 > 150
      Agent("herbivore", 1 * PU, 1 * PU, -2500, 0, 140 * EU, 0, 0),
      \* the same herbivore on cooldown
      Agent("herbivore", 1 * PU, 1 * PU, -2500, 0, 140 * EU, 0, 5),
      \* a carnivore within the catch radius of them: 150 + 45 > 180
      Agent("carnivore", 3 * PU, 1 * PU, 500, 0, 150 * EU, 0, 0) }

HungryWorlds ==
    UNION { { WithIds(s) : s \in [1..n -> HungryAgents] } : n \in 1..INITIAL_AGENTS }

InitFed ==
    /\ agents \in HungryWorlds
    /\ Constructed

SpecFed == InitFed /\ [][Next]_vars

----------------------------------------------------------------------------
(* The same program with its sliders, lines 700-728.  Every slider sets a
   state that is in the dependency list of line 676: the effect of lines
   670-675 runs again, after the cleanup of the one before. *)

\* one move per slider, to a value of its range other than the default; the
\* caps go one below the default
SliderMoves ==
    { <<"timeScale", 20>>, <<"herbivoreSpeed", 2 * FU>>,
      <<"carnivoreSpeed", 2 * FU>>, <<"carnivoreMetabolismScale", 2 * TU>>,
      <<"carnivoreCatchRadius", 16>>, <<"carnivoreReproThreshold", 120>>,
      <<"maxCarnivores", MAX_CARNIVORES_DEFAULT - 1>>,
      <<"herbivoreReproThreshold", 100>>,
      <<"maxHerbivores", MAX_HERBIVORES_DEFAULT - 1>>,
      <<"foodSpawnRate", 50>> }

\* the value of a state after the move
Moved(move, name, value) == IF move[1] = name THEN move[2] ELSE value

\* onChange of a slider: the setter, the render, the effect
Slider ==
    /\ pc = "idle"
    /\ changes < MaxChanges
    /\ \E move \in SliderMoves :
         /\ timeScale' = Moved(move, "timeScale", timeScale)
         /\ herbivoreSpeed' = Moved(move, "herbivoreSpeed", herbivoreSpeed)
         /\ carnivoreSpeed' = Moved(move, "carnivoreSpeed", carnivoreSpeed)
         /\ carnivoreMetabolismScale' =
                Moved(move, "carnivoreMetabolismScale",
                      carnivoreMetabolismScale)
         /\ carnivoreCatchRadius' =
                Moved(move, "carnivoreCatchRadius", carnivoreCatchRadius)
         /\ carnivoreReproThreshold' =
                Moved(move, "carnivoreReproThreshold",
                      carnivoreReproThreshold)
         /\ maxCarnivores' = Moved(move, "maxCarnivores", maxCarnivores)
         /\ herbivoreReproThreshold' =
                Moved(move, "herbivoreReproThreshold",
                      herbivoreReproThreshold)
         /\ maxHerbivores' = Moved(move, "maxHerbivores", maxHerbivores)
         /\ foodSpawnRate' = Moved(move, "foodSpawnRate", foodSpawnRate)
    \* a setter called with the value the state has renders nothing
    /\ params' # params
    /\ Effect(isRunning)
    /\ changes' = changes + 1
    /\ UNCHANGED <<world, locals, obs, issued, isRunning, nextFoodObj, ticks,
                   resets, closure, framePending>>

InitDriver ==
    /\ agents \in {w \in StartWorlds : Len(w) = 1}
    /\ Constructed

NextDriver == Next \/ Slider

SpecDriver == InitDriver /\ [][NextDriver]_vars

----------------------------------------------------------------------------
(* The end of old agents: the same component, started from worlds of well
   fed agents one and two ticks before the age limit.  A requested
   animation frame is called and update runs to its end, as in SpecStarve. *)

AgedAgents ==
    { Agent("herbivore", 1 * PU, 1 * PU, -2500, 0, 140 * EU, AgeLimit - 2, 0),
      Agent("carnivore", 3 * PU, 1 * PU, 500, 0, 200 * EU, AgeLimit - 1, 0),
      Agent("neutral", 1 * PU, 1 * PU, 500, 0, 200 * EU, AgeLimit - 2, 0) }

AgedWorlds ==
    UNION { { WithIds(s) : s \in [1..n -> AgedAgents] } : n \in 1..INITIAL_AGENTS }

InitAged ==
    /\ agents \in AgedWorlds
    /\ Constructed

SpecAged == InitAged /\ [][Next]_vars /\ WF_idx(TickStep)

----------------------------------------------------------------------------
(* The first variant of the component, src/src/LifeSim.tsx. Its refs and   *)
(* its state have the names of the second variant and are kept in the same *)
(* variables; its agents have the fields of lines 3-15, with the energy in *)
(* 1/BEU and the size in 1/BZU; it has no history and no id counter.       *)

BEU == 100 * TU
BZU == 1000 * TU

\* the values of the render an effect ran in; the update it defines reads
\* these
Captured(running, hs, cs, fsr, ts) ==
    [isRunning |-> running, herbivoreSpeed |-> hs, carnivoreSpeed |-> cs,
     foodSpawnRate |-> fsr, timeScale |-> ts]

\* the values of the current render
Current ==
    Captured(isRunning, herbivoreSpeed, carnivoreSpeed, foodSpawnRate,
             timeScale)

\* the positions the sliders are moved to
TimeScales == {14, 40}
SpeedFactors == {FU, 3 * FU}
SpawnRates == {20, 50}

\* the draw that places an agent, the draw compared with foodSpawnRate
RandPlace == {250, 252}
RandSpawnChance == {30}

\* the agent pushed at lines 45-57; one draw r stands for the draws of
\* lines 47-54
BasicInitialAgent(i, typeRand, r) ==
    [id |-> i,
     x |-> Div(r * WORLD_WIDTH * PU, RU),
     y |-> Div(r * WORLD_HEIGHT * PU, RU),
     dx |-> Centered(r, 2 * VU),
     dy |-> Centered(r, 2 * VU),
     energy |-> 100 * BEU,
     age |-> 0,
     speed |-> Div(5 * SU, 10) + Div(r * 12 * SU, 10 * RU),
     vision |-> 40 * PU + Div(r * 20 * PU, RU),
     size |-> 5 * BZU,
     type |-> AgentType(typeRand)]

RECURSIVE BasicInitialAgents(_, _)
\* the loop of lines 41-58 from i on
BasicInitialAgents(i, draws) ==
    IF i >= INITIAL_AGENTS THEN << >>
    ELSE <<BasicInitialAgent(i, draws[i + 1][1], draws[i + 1][2])>>
             \o BasicInitialAgents(i + 1, draws)

\* The record of a tick of this variant, read by no action:
\*   read    the parameter values update read
\*   state   the parameter values of the state when update was called
\*   start   the agent set the tick began with, output: updatedAgents
\*   processed  id, energy and age, after line 203, of the agent of each
\*              round of the loop
\*   eaten   the ids of the herbivores spliced out at line 185
\*   done    the tick ran to its end
BasicNoTick ==
    [read |-> << >>, state |-> << >>, start |-> << >>, output |-> << >>,
     processed |-> << >>, eaten |-> {}, done |-> FALSE]

\* lines 39-66: the worlds the component can be mounted with
MountedWorlds ==
    { [agents |-> BasicInitialAgents(0, draws),
       food |-> InitialFoods(0, rf, 0)] :
          draws \in [1..INITIAL_AGENTS -> RandType \X RandPlace],
          rf \in RandFood }

\* lines 34-37: the parameters of the first render, over which the first
\* run of the effect of lines 68-219 defines update
Defaults == Captured(FALSE, FU, FU, 20, 14)

\* what the first variant does not have
absent ==
    <<history, nextId, carnivoreMetabolismScale, carnivoreCatchRadius,
      carnivoreReproThreshold, maxCarnivores, herbivoreReproThreshold,
      maxHerbivores, eatenHerbivores, currentHerbivores, currentCarnivores,
      spawnedHerbivores, issued, animationRef, frames>>

InitBasic ==
    /\ \E w \in MountedWorlds : agents = w.agents /\ food = w.food
    /\ isRunning = FALSE
    /\ herbivoreSpeed = FU
    /\ carnivoreSpeed = FU
    /\ foodSpawnRate = 20
    /\ timeScale = 14
    /\ closure = Defaults
    /\ framePending = FALSE
    /\ animationRef = 0
    /\ frames = {}
    /\ pc = "idle"
    /\ idx = 0
    /\ updatedAgents = << >>
    /\ obs = BasicNoTick
    /\ nextFoodObj = INITIAL_FOOD
    /\ history = << >>
    /\ nextId = 0
    /\ carnivoreMetabolismScale = 0
    /\ carnivoreCatchRadius = 0
    /\ carnivoreReproThreshold = 0
    /\ maxCarnivores = 0
    /\ herbivoreReproThreshold = 0
    /\ maxHerbivores = 0
    /\ eatenHerbivores = {}
    /\ currentHerbivores = 0
    /\ currentCarnivores = 0
    /\ spawnedHerbivores = 0
    /\ issued = << >>
    /\ ticks = 0
    /\ resets = 0
    /\ changes = 0

\* line 93
BasicAdjustedSpeed(a, c) ==
    IF a.type = "herbivore" THEN a.speed * c.herbivoreSpeed
    ELSE IF a.type = "carnivore" THEN a.speed * c.carnivoreSpeed
    ELSE a.speed * 8

\* lines 95-105: a herbivore accelerates toward the nearest food in sight;
\* (nearestFood.x - x) / dist is 0 / 0 when the food lies on the herbivore
BasicForage(a, v, foodNow) ==
    IF Len(foodNow) = 0 THEN v
    ELSE LET nf == Nearest(foodNow, a.x, a.y)
             ex == NSub(nf.x, a.x)
             ey == NSub(nf.y, a.y)
             d2 == Hypot2(ex, ey)
         IN  IF ~NLt(d2, a.vision * a.vision) THEN v
             ELSE IF d2 = 0
                  THEN [dx |-> NaN, dy |-> NaN]
                  ELSE [dx |-> NAdd(v.dx, Toward(ex, ex, ey, 250)),
                        dy |-> NAdd(v.dy, Toward(ey, ex, ey, 250))]

\* lines 124-137: a carnivore accelerates toward the nearest herbivore in
\* sight; the division by dist is not guarded either
BasicHunt(a, v, agentsNow) ==
    LET prey == OfType(agentsNow, "herbivore")
    IN  IF Len(prey) = 0 THEN v
        ELSE LET nearest == Nearest(prey, a.x, a.y)
                 ex == NSub(nearest.x, a.x)
                 ey == NSub(nearest.y, a.y)
                 d2 == Hypot2(ex, ey)
             IN  IF ~NLt(d2, a.vision * a.vision) THEN v
                 ELSE IF d2 = 0
                      THEN [dx |-> NaN, dy |-> NaN]
                      ELSE [dx |-> NAdd(v.dx, Toward(ex, ex, ey, 250)),
                            dy |-> NAdd(v.dy, Toward(ey, ex, ey, 250))]

\* lines 95-145, the velocity of the agent after steering; the flight of
\* lines 107-122 is that of the second variant
BasicSteer(a, agentsNow, foodNow, rw) ==
    IF a.type = "herbivore"
    THEN HerbivoreFlee(a, BasicForage(a, [dx |-> a.dx, dy |-> a.dy], foodNow),
                       agentsNow)
    ELSE IF a.type = "carnivore"
    THEN BasicHunt(a, [dx |-> a.dx, dy |-> a.dy], agentsNow)
    ELSE NeutralDrift([dx |-> a.dx, dy |-> a.dy], rw, rw)

\* lines 161-162: the velocity is reversed outside the arena; the position
\* is left where it is
Reflect(p, d, limit) == IF NLt(p, 0) \/ NGt(p, limit) THEN NNeg(d) ELSE d

\* lines 150-159: damping, and the cap at maxVel = 2.5 for every type
BasicCapped(v) ==
    CapVelocity("herbivore", NScale(v.dx, 95, 100), NScale(v.dy, 95, 100))

\* lines 147-162: position and velocity after the move, with the time scale
\* and the speed factors c of the closure
BasicMoved(a, v, capped, step) ==
    [x |-> NAdd(a.x, NScale(v.dx, step, (VU * SU * FU * TU) \div PU)),
     y |-> NAdd(a.y, NScale(v.dy, step, (VU * SU * FU * TU) \div PU)),
     dx |-> Reflect(NAdd(a.x, NScale(v.dx, step, (VU * SU * FU * TU) \div PU)),
                    capped.dx, WORLD_WIDTH * PU),
     dy |-> Reflect(NAdd(a.y, NScale(v.dy, step, (VU * SU * FU * TU) \div PU)),
                    capped.dy, WORLD_HEIGHT * PU)]

BasicMove(a, v, c) ==
    BasicMoved(a, v, BasicCapped(v), BasicAdjustedSpeed(a, c) * c.timeScale)

RECURSIVE BasicFirstFoodWithin(_, _, _, _)
\* lines 165-168: the first index from i on of a food item closer than 6,
\* or 0
BasicFirstFoodWithin(foodNow, i, x, y) ==
    IF i > Len(foodNow) THEN 0
    ELSE IF NLt(Hypot2(NSub(foodNow[i].x, x), NSub(foodNow[i].y, y)),
                (6 * PU) * (6 * PU))
         THEN i
         ELSE BasicFirstFoodWithin(foodNow, i + 1, x, y)

RECURSIVE BasicFirstPreyWithin(_, _, _, _)
\* lines 178-182: the first index from i on of a herbivore closer than 4,
\* or 0
BasicFirstPreyWithin(agentsNow, i, x, y) ==
    IF i > Len(agentsNow) THEN 0
    ELSE IF /\ agentsNow[i].type = "herbivore"
            /\ NLt(Hypot2(NSub(agentsNow[i].x, x), NSub(agentsNow[i].y, y)),
                   (4 * PU) * (4 * PU))
         THEN i
         ELSE BasicFirstPreyWithin(agentsNow, i + 1, x, y)

\* line 201
DecayRate(type) ==
    IF type = "carnivore" THEN 15 ELSE IF type = "herbivore" THEN 8 ELSE 6

\* lines 143, 169, 183 and 201: the energy at the end of the round
BasicEnergy(a, gains, fi, pi, c) ==
    a.energy + (IF gains THEN 10 * BEU ELSE 0)
             + (IF fi > 0 THEN 30 * BEU ELSE 0)
             + (IF pi > 0 THEN 45 * BEU ELSE 0)
             - DecayRate(a.type) * c.timeScale

\* lines 170, 184 and 203: the size at the end of the round
BasicSize(a, fi, pi, c) ==
    Max(4 * BZU,
        (IF pi > 0 THEN Min(a.size + (4 * BZU) \div 10, 12 * BZU)
         ELSE IF fi > 0 THEN Min(a.size + BZU \div 4, 10 * BZU)
         ELSE a.size) - 8 * c.timeScale)

\* lines 164-205 of one round: the food and the agent array after the
\* splices of lines 171 and 185, and what line 205 pushes; fi and pi are the
\* indexes of the food item eaten and of the herbivore caught, or 0
BasicSettle(a, m, fi, pi, energy, size, agentsNow, foodNow) ==
    [food |-> IF fi > 0 THEN Splice(foodNow, fi) ELSE foodNow,
     agents |-> IF pi > 0 THEN Splice(agentsNow, pi) ELSE agentsNow,
     pushed |-> IF energy > 0 /\ a.age + 1 < AgeLimit
                THEN <<[a EXCEPT !.x = m.x, !.y = m.y, !.dx = m.dx,
                                 !.dy = m.dy, !.energy = energy,
                                 !.age = a.age + 1, !.size = size]>>
                ELSE << >>,
     caught |-> IF pi > 0 THEN {agentsNow[pi].id} ELSE {},
     energy |-> energy]

BasicEncounter(a, m, fi, pi, gains, c, agentsNow, foodNow) ==
    BasicSettle(a, m, fi, pi, BasicEnergy(a, gains, fi, pi, c),
                BasicSize(a, fi, pi, c), agentsNow, foodNow)

\* lines 90-205: one round of the loop for agent a
BasicIteration(a, m, gains, c, agentsNow, foodNow) ==
    BasicEncounter(a, m,
                   IF a.type = "herbivore"
                   THEN BasicFirstFoodWithin(foodNow, 1, m.x, m.y) ELSE 0,
                   IF a.type = "carnivore"
                   THEN BasicFirstPreyWithin(agentsNow, 1, m.x, m.y) ELSE 0,
                   gains, c, agentsNow, foodNow)

\* the refs after the round
BasicCommit(a, it) ==
    /\ agents' = it.agents
    /\ food' = it.food
    /\ updatedAgents' = updatedAgents \o it.pushed
    /\ obs' = [obs EXCEPT
                 !.eaten = @ \cup it.caught,
                 !.processed = Append(@, [id |-> a.id, energy |-> it.energy,
                                          age |-> a.age + 1])]

\* lines 74-88: the frame callback fires; update is the one of the closure
BasicTickBegin ==
    /\ pc = "idle"
    /\ framePending
    /\ ticks < MaxTicks
    /\ \E r \in RandSpawnChance, rp \in RandSpawn :
         /\ food' = IF r < closure.foodSpawnRate
                    THEN Append(food, [id |-> Now * RU,
                                       x |-> Div(rp * WORLD_WIDTH * PU, RU),
                                       y |-> Div(rp * WORLD_HEIGHT * PU, RU),
                                       obj |-> nextFoodObj])
                    ELSE food
         /\ nextFoodObj' = IF r < closure.foodSpawnRate THEN nextFoodObj + 1
                                                        ELSE nextFoodObj
    /\ obs' = [BasicNoTick EXCEPT !.read = closure, !.state = Current,
                                  !.start = agents]
    /\ updatedAgents' = << >>
    /\ idx' = 1
    /\ pc' = "loop"
    /\ framePending' = FALSE
    /\ UNCHANGED <<agents, isRunning, herbivoreSpeed, carnivoreSpeed,
                   foodSpawnRate, timeScale, closure, absent, ticks, resets,
                   changes>>

\* lines 89-206: one round of for (const agent of agentsRef.current); the
\* iterator reads the array as the splices of line 185 have left it
BasicProcessAgent ==
    /\ pc = "loop"
    /\ idx <= Len(agents)
    /\ \E rw \in RandWander,
          rg \in Draw(agents[idx].type = "neutral", RandChance) :
         BasicCommit(
             agents[idx],
             BasicIteration(agents[idx],
                            BasicMove(agents[idx],
                                      BasicSteer(agents[idx], agents, food, rw),
                                      closure),
                            agents[idx].type = "neutral" /\ rg < 2,
                            closure, agents, food))
    /\ idx' = idx + 1
    /\ UNCHANGED <<isRunning, herbivoreSpeed, carnivoreSpeed, foodSpawnRate,
                   timeScale, closure, framePending, pc, nextFoodObj, absent,
                   ticks, resets, changes>>

\* lines 208-210: the new agent set; update requests the next frame for
\* itself when the isRunning it closed over is true
BasicTickEnd ==
    /\ pc = "loop"
    /\ idx > Len(agents)
    /\ agents' = updatedAgents
    /\ framePending' = closure.isRunning
    /\ pc' = "idle"
    /\ idx' = 0
    /\ updatedAgents' = << >>
    /\ obs' = [obs EXCEPT !.output = updatedAgents, !.done = TRUE]
    /\ ticks' = ticks + 1
    /\ UNCHANGED <<food, isRunning, herbivoreSpeed, carnivoreSpeed,
                   foodSpawnRate, timeScale, closure, nextFoodObj, absent,
                   resets, changes>>

\* lines 213-219: a value of the dependency list has changed; the cleanup
\* cancels the requested frame, the effect defines update anew over the
\* values of this render and requests a frame for it when isRunning
EffectRuns ==
    /\ closure' = Current'
    /\ framePending' = isRunning'

\* line 232
BasicStart ==
    /\ pc = "idle"
    /\ ~isRunning
    /\ isRunning' = TRUE
    /\ UNCHANGED <<herbivoreSpeed, carnivoreSpeed, foodSpawnRate, timeScale>>
    /\ EffectRuns
    /\ UNCHANGED <<agents, food, idx, pc, updatedAgents, obs, nextFoodObj,
                   absent, ticks, resets, changes>>

\* line 233
BasicPause ==
    /\ pc = "idle"
    /\ isRunning
    /\ isRunning' = FALSE
    /\ UNCHANGED <<herbivoreSpeed, carnivoreSpeed, foodSpawnRate, timeScale>>
    /\ EffectRuns
    /\ UNCHANGED <<agents, food, idx, pc, updatedAgents, obs, nextFoodObj,
                   absent, ticks, resets, changes>>

\* lines 238-239: the time-scale slider; timeScale is not in the dependency
\* list of line 219, the effect does not run
SetTimeScale ==
    /\ pc = "idle"
    /\ changes < MaxChanges
    /\ \E v \in TimeScales \ {timeScale} : timeScale' = v
    /\ changes' = changes + 1
    /\ UNCHANGED <<agents, food, isRunning, herbivoreSpeed, carnivoreSpeed,
                   foodSpawnRate, closure, framePending, idx, pc,
                   updatedAgents, obs, nextFoodObj, absent, ticks, resets>>

\* lines 241-242
SetHerbivoreSpeed ==
    /\ pc = "idle"
    /\ changes < MaxChanges
    /\ \E v \in SpeedFactors \ {herbivoreSpeed} : herbivoreSpeed' = v
    /\ UNCHANGED <<isRunning, carnivoreSpeed, foodSpawnRate, timeScale>>
    /\ EffectRuns
    /\ changes' = changes + 1
    /\ UNCHANGED <<agents, food, idx, pc, updatedAgents, obs, nextFoodObj,
                   absent, ticks, resets>>

\* lines 244-245
SetCarnivoreSpeed ==
    /\ pc = "idle"
    /\ changes < MaxChanges
    /\ \E v \in SpeedFactors \ {carnivoreSpeed} : carnivoreSpeed' = v
    /\ UNCHANGED <<isRunning, herbivoreSpeed, foodSpawnRate, timeScale>>
    /\ EffectRuns
    /\ changes' = changes + 1
    /\ UNCHANGED <<agents, food, idx, pc, updatedAgents, obs, nextFoodObj,
                   absent, ticks, resets>>

\* lines 247-248
SetFoodSpawnRate ==
    /\ pc = "idle"
    /\ changes < MaxChanges
    /\ \E v \in SpawnRates \ {foodSpawnRate} : foodSpawnRate' = v
    /\ UNCHANGED <<isRunning, herbivoreSpeed, carnivoreSpeed, timeScale>>
    /\ EffectRuns
    /\ changes' = changes + 1
    /\ UNCHANGED <<agents, food, idx, pc, updatedAgents, obs, nextFoodObj,
                   absent, ticks, resets>>

\* line 234: the page is loaded again; the component is mounted anew
BasicReset ==
    /\ pc = "idle"
    /\ resets < MaxResets
    /\ \E w \in MountedWorlds : agents' = w.agents /\ food' = w.food
    /\ isRunning' = FALSE
    /\ herbivoreSpeed' = FU
    /\ carnivoreSpeed' = FU
    /\ foodSpawnRate' = 20
    /\ timeScale' = 14
    /\ closure' = Defaults
    /\ framePending' = FALSE
    /\ obs' = BasicNoTick
    /\ nextFoodObj' = INITIAL_FOOD
    /\ resets' = resets + 1
    /\ UNCHANGED <<pc, idx, updatedAgents>>
    /\ UNCHANGED <<absent, ticks, changes>>

NextBasic ==
    \/ BasicTickBegin
    \/ BasicProcessAgent
    \/ BasicTickEnd
    \/ BasicStart
    \/ BasicPause
    \/ SetTimeScale
    \/ SetHerbivoreSpeed
    \/ SetCarnivoreSpeed
    \/ SetFoodSpawnRate
    \/ BasicReset

SpecBasic == InitBasic /\ [][NextBasic]_vars

----------------------------------------------------------------------------
(* Properties of one tick, stated on its record obs *)

TickDone == obs.done

Ids(as) == {as[i].id : i \in DOMAIN as}

Count(as, type) == Len(OfType(as, type))


\* the place of the agent with this id in the agent set the tick began with
PlaceAtStart(id) ==
    CHOOSE i \in DOMAIN obs.start : obs.start[i].id = id

Near(a, f, radius) ==
    NLt(Hypot2(NSub(f.x, a.x), NSub(f.y, a.y)), (radius * PU) * (radius * PU))

\* C1: a herbivore caught by a carnivore during a tick is absent from the
\* agent set the tick produces, wherever the two stand in the iteration
\* order.
C1_EatenHerbivoreAbsent ==
    TickDone => \A h \in obs.eaten : h \notin Ids(obs.output)

\* C2: within one tick no herbivore is eaten by more than one carnivore:
\* at most one carnivore gains the predation energy for it.
C2_OneCarnivorePerHerbivore ==
    \A c1, c2 \in obs.catches : c1[2] = c2[2] => c1[1] = c2[1]

\* C3: within one tick every food item is consumed by at most one
\* herbivore and every herbivore consumes at most one item; a consumed item
\* is gone from the food set.
C3_FoodClaimedOnce ==
    /\ \A i, j \in DOMAIN obs.feeds :
           \/ i = j
           \/ /\ obs.feeds[i][2].obj # obs.feeds[j][2].obj
              /\ obs.feeds[i][1] # obs.feeds[j][1]
    /\ \A i \in DOMAIN obs.feeds : \A k \in DOMAIN food :
           food[k].obj # obs.feeds[i][2].obj

\* a tick in which one herbivore fed and a herbivore processed after it
\* ended within feeding distance of the consumed item, and went without
C3_Witness ==
    /\ TickDone
    /\ \E i \in DOMAIN obs.feeds, a, b \in DOMAIN obs.output :
           /\ obs.output[a].id = obs.feeds[i][1]
           /\ obs.output[b].type = "herbivore"
           /\ obs.output[b].id \in Ids(obs.start)
           /\ PlaceAtStart(obs.output[b].id) > PlaceAtStart(obs.output[a].id)
           /\ Near(obs.output[b], obs.feeds[i][2], 8)
           /\ \A j \in DOMAIN obs.feeds : obs.feeds[j][1] # obs.output[b].id

\* C4: a tick that starts with at most maxCarnivores carnivores ends with
\* at most maxCarnivores carnivores in its output.
C4_CarnivoreCap ==
    TickDone /\ Count(obs.start, "carnivore") <= obs.caps[2]
        => Count(obs.output, "carnivore") <= obs.caps[2]

\* C5: a tick that starts with at most maxHerbivores herbivores ends with
\* at most maxHerbivores herbivores in its output; herbivores reproduce only
\* while the herbivores at tick start plus the children of this tick are
\* below the cap.
C5_HerbivoreCap ==
    /\ TickDone /\ Count(obs.start, "herbivore") <= obs.caps[1]
           => Count(obs.output, "herbivore") <= obs.caps[1]
    /\ pc = "loop" /\ spawnedHerbivores > 0
           => currentHerbivores + spawnedHerbivores <= maxHerbivores

\* a tick that filled the cap: a child was born, and a parent that was
\* still above the threshold and off cooldown was refused
C5_Witness ==
    /\ TickDone
    /\ obs.spawned > 0
    /\ Count(obs.output, "herbivore") = obs.caps[1]
    /\ \E i \in DOMAIN obs.output :
           /\ obs.output[i].type = "herbivore"
           /\ obs.output[i].id \in Ids(obs.start)
           /\ obs.output[i].energy > herbivoreReproThreshold * EU
           /\ obs.output[i].reproCooldown = 0

Unique(as) == \A i, j \in DOMAIN as : as[i].id = as[j].id => i = j

\* C6: no two agents of the current agent set share an id, after any
\* sequence of ticks and resets: the agents of initializeWorld have the ids
\* below INITIAL_AGENTS, a child takes the next value of the counter, a
\* survivor keeps its id.
C6_UniqueIds ==
    /\ Unique(agents)
    /\ Unique(updatedAgents)
    /\ \A i \in DOMAIN agents : agents[i].id < nextId
    /\ \A i \in DOMAIN updatedAgents : updatedAgents[i].id < nextId

\* two children and an agent of initializeWorld's range side by side
C6_Witness ==
    /\ pc = "idle"
    /\ \E i, j, k \in DOMAIN agents :
           /\ agents[i].id >= INITIAL_AGENTS
           /\ agents[j].id >= INITIAL_AGENTS
           /\ i # j
           /\ agents[k].id < INITIAL_AGENTS

\* C7: every agent of a tick's output, survivor or child, has energy > 0
\* and age < 800; an agent whose energy after metabolism is 0 or less is
\* not in the output.
C7_OutputAlive ==
    TickDone =>
        /\ \A i \in DOMAIN obs.output :
               obs.output[i].energy > 0 /\ obs.output[i].age < AgeLimit
        /\ \A i \in DOMAIN obs.processed :
               obs.processed[i].energy <= 0
                   => obs.processed[i].id \notin Ids(obs.output)

\* a tick that left an agent below the age limit at energy exactly 0, next
\* to an agent that stayed
C7_Witness ==
    /\ TickDone
    /\ obs.output # << >>
    /\ \E i \in DOMAIN obs.processed :
           obs.processed[i].energy = 0 /\ obs.processed[i].age < AgeLimit

\* C8: an agent present at tick start and absent from the output has
\* energy <= 0 after metabolism, or age >= 800, or is a herbivore marked
\* eaten in that tick.
C8_AbsentForCause ==
    TickDone =>
        \A i \in DOMAIN obs.start :
            obs.start[i].id \notin Ids(obs.output)
                => \/ obs.processed[i].energy <= 0
                   \/ obs.processed[i].age >= AgeLimit
                   \/ /\ obs.start[i].type = "herbivore"
                      /\ obs.start[i].id \in obs.eaten

\* a tick that dropped a herbivore with energy and years left, because it
\* was eaten
C8_Witness ==
    /\ TickDone
    /\ \E i \in DOMAIN obs.start :
           /\ obs.start[i].id \notin Ids(obs.output)
           /\ obs.processed[i].energy > 0
           /\ obs.processed[i].age < AgeLimit
           /\ obs.start[i].id \in obs.eaten

\* C9: every agent of a tick's output, children included, has
\* 0 <= x <= 800 and 0 <= y <= 500.
C9_InsideArena ==
    TickDone =>
        \A i \in DOMAIN obs.output :
            LET a == obs.output[i]
            IN  /\ ~IsNaN(a.x) /\ a.x >= 0 /\ a.x <= WORLD_WIDTH * PU
                /\ ~IsNaN(a.y) /\ a.y >= 0 /\ a.y <= WORLD_HEIGHT * PU

\* C10: every agent of a tick's output, children included, has a velocity
\* magnitude not above the maximum of its type (3.2 for carnivores, 2.5 for
\* the others).
C10_BoundedVelocity ==
    TickDone =>
        \A i \in DOMAIN obs.output :
            LET a == obs.output[i]
            IN  ~NGt(Hypot2(a.dx, a.dy), MaxVel(a.type) * MaxVel(a.type))

\* C11: a herbivore that a carnivore processed earlier in the tick has
\* marked eaten does not reproduce in its own round: no child of it is
\* pushed and the id counter does not move for it.
C11_EatenHerbivoreBarren ==
    \A b \in obs.births : ~b.marked

\* C12: the steering of every agent is computed from the agent set and the
\* food set of the start of the tick: it is what the steering gives on the
\* agents the tick began with and the food the agent loop began with,
\* whatever the agents processed earlier removed or added.
C12_SteeringFromTickStart ==
    \A i \in DOMAIN obs.processed :
        LET p == obs.processed[i]
            v == Steer(obs.start[i], obs.start, obs.foodLoop, p.rw, p.rw)
        IN  p.dx = v.dx /\ p.dy = v.dy

\* C13: a tick does not mutate the world it was given: after the tick the
\* agent objects of the agent set it began with have every field as
\* before, and the food collection it began with has the contents it had.
C13_PriorWorldUntouched ==
    TickDone => obs.prior = obs.start /\ food = obs.food0

\* the agent of the output that has this id
InOutput(id) ==
    obs.output[CHOOSE j \in DOMAIN obs.output : obs.output[j].id = id]

\* C15: for a herbivore with energy above herbivoreReproThreshold, cooldown
\* 0 and the herbivore population under the cap, one tick later the
\* herbivore population is one higher, the parent's cooldown in the output
\* is 600 and the parent's energy in the output is 45.
C15_HerbivoreReproductionOutcome ==
    TickDone =>
        \A i \in DOMAIN obs.start :
            LET a == obs.start[i]
            IN  /\ a.type = "herbivore"
                /\ a.energy > herbivoreReproThreshold * EU
                /\ a.reproCooldown = 0
                /\ Count(obs.start, "herbivore") < obs.caps[1]
                => /\ Count(obs.output, "herbivore")
                          = Count(obs.start, "herbivore") + 1
                   /\ a.id \in Ids(obs.output)
                   /\ InOutput(a.id).reproCooldown = 600
                   /\ InOutput(a.id).energy = 45 * EU

\* foodNow without the items that are the object obj
WithoutItem(foodNow, obj) ==
    SelectSeq(foodNow, LAMBDA f : f.obj # obj)

\* C16: in a world with one herbivore and one food item, a tick in which
\* the herbivore feeds on the item leaves the herbivore's energy 35 higher
\* than at tick start, the Food Set without exactly that item, and the
\* herbivore's lastAteTicks reset to 0.
C16_FeedOutcome ==
    TickDone /\ Count(obs.start, "herbivore") = 1 /\ Len(obs.food0) = 1 =>
        \A i \in DOMAIN obs.start, k \in DOMAIN obs.feeds :
            LET a == obs.start[i]
            IN  /\ a.type = "herbivore"
                /\ obs.feeds[k] = <<a.id, obs.food0[1]>>
                /\ a.id \in Ids(obs.output)
                => /\ InOutput(a.id).energy = a.energy + 35 * EU
                   /\ food = WithoutItem(obs.food0, obs.food0[1].obj)
                   /\ InOutput(a.id).lastAteTicks = 0

\* C17: no division by a distance of 0 occurs in a tick: the position and
\* the velocity of every agent of the output are well-defined numbers.
C17_WellDefinedMotion ==
    TickDone =>
        \A j \in DOMAIN obs.output :
            /\ obs.output[j].x # NaN /\ obs.output[j].y # NaN
            /\ obs.output[j].dx # NaN /\ obs.output[j].dy # NaN

\* the last n elements of seq, all of them when it has fewer
LastOf(seq, n) ==
    SubSeq(seq, Len(seq) - Min(Len(seq), n) + 1, Len(seq))

C19_IdsNeverReused ==
    \A i, j \in DOMAIN issued : i < j => issued[i] < issued[j]

\* the agent of the tick's start that has this id
AtStart(id) ==
    obs.start[CHOOSE i \in DOMAIN obs.start : obs.start[i].id = id]

\* the clamp range of a child's speed and vision: herbivore speed 0.4..2.0
\* and vision 30..70, carnivore speed 0.6..2.2 and vision 50..90
InClampRange(c) ==
    IF c.type = "herbivore"
    THEN /\ 40 <= c.speed /\ c.speed <= 200
         /\ 30 * PU <= c.vision /\ c.vision <= 70 * PU
    ELSE /\ c.type = "carnivore"
         /\ 60 <= c.speed /\ c.speed <= 220
         /\ 50 * PU <= c.vision /\ c.vision <= 90 * PU

\* C20: an agent that survives a tick has in the output the id, type,
\* speed, vision and metabolism it had at tick start; a child has the type
\* of its parent, and a speed and a vision within the clamp range of the
\* type.
C20_InnateFieldsFixed ==
    TickDone =>
        /\ \A j \in DOMAIN obs.output :
               obs.output[j].id \in Ids(obs.start) =>
                   LET a == AtStart(obs.output[j].id)
                   IN  /\ obs.output[j].type = a.type
                       /\ obs.output[j].speed = a.speed
                       /\ obs.output[j].vision = a.vision
                       /\ obs.output[j].metabolism = a.metabolism
        /\ \A b \in obs.births :
               /\ b.child \in Ids(obs.output)
               /\ b.child \notin Ids(obs.start)
               /\ InOutput(b.child).type = AtStart(b.parent).type
               /\ InClampRange(InOutput(b.child))

\* a tick whose output holds a surviving carnivore and its child, the
\* child's vision raised to the lower end of the range
C20_Witness ==
    /\ TickDone
    /\ \E b \in obs.births :
           /\ b.parent \in Ids(obs.output)
           /\ AtStart(b.parent).type = "carnivore"
           /\ InOutput(b.child).vision = 50 * PU
           /\ InOutput(b.child).speed < AtStart(b.parent).speed

\* how many agents of the output have this id
InOutputTimes(id) ==
    Cardinality({j \in DOMAIN obs.output : obs.output[j].id = id})

\* C23: a child is appended to the output of the tick of its birth and
\* takes no further part in that tick: it is in the output once, as it was
\* made, with age 0 and energy 35 (herbivore) or 70 (carnivore); it has no
\* round of the loop, feeds on nothing, is caught by nothing and has no
\* child.
C23_ChildSitsOutBirthTick ==
    TickDone =>
        \A b \in obs.births :
            /\ InOutputTimes(b.child) = 1
            /\ InOutput(b.child) = b.made
            /\ b.made.age = 0
            /\ b.made.energy
                   = IF b.made.type = "herbivore" THEN 35 * EU ELSE 70 * EU
            /\ \A k \in DOMAIN obs.processed : obs.processed[k].id # b.child
            /\ \A k \in DOMAIN obs.feeds : obs.feeds[k][1] # b.child
            /\ \A c \in obs.catches : c[1] # b.child /\ c[2] # b.child
            /\ b.child \notin obs.eaten
            /\ \A b2 \in obs.births : b2.parent # b.child

\* a tick in which the first agent of the loop had a child and a carnivore
\* behind it caught a herbivore afterwards
C23_Witness ==
    /\ TickDone
    /\ Len(obs.processed) >= 2
    /\ obs.processed[2].type = "carnivore"
    /\ \E b \in obs.births : b.parent = obs.processed[1].id
    /\ \E c \in obs.catches : c[1] = obs.processed[2].id

\* what the agent of the k-th round gained by feeding, from the record of
\* the tick
Gained(k) ==
    LET id == obs.processed[k].id
    IN  IF \E f \in DOMAIN obs.feeds : obs.feeds[f][1] = id THEN 35 * EU
        ELSE IF \E c \in obs.catches : c[1] = id THEN 45 * EU
        ELSE 0

\* the children herbivores had in the rounds before the k-th
SpawnedBefore(k) ==
    Cardinality({b \in obs.births :
                    \E j \in 1..(k - 1) :
                        /\ obs.processed[j].id = b.parent
                        /\ obs.processed[j].type = "herbivore"})

\* the reproduction test of the k-th round on the energy after feeding
Fertile(k) ==
    LET a == AtStart(obs.processed[k].id)
        energy == a.energy + Gained(k)
    IN  \/ /\ a.type = "herbivore"
           /\ energy > herbivoreReproThreshold * EU
           /\ a.reproCooldown <= 0
           /\ Count(obs.start, "herbivore") + SpawnedBefore(k) < obs.caps[1]
        \/ /\ a.type = "carnivore"
           /\ energy > carnivoreReproThreshold * EU
           /\ a.reproCooldown <= 0
           /\ Count(obs.start, "carnivore") < obs.caps[2]

\* C24: reproduction is decided after feeding, on the energy the feed left,
\* and before metabolism: an agent has a child in a tick exactly when its
\* start energy plus the gain of this tick's feed exceeds the threshold of
\* its kind, its cooldown is <= 0 and there is room under the cap; the
\* parent's energy in the record is 45 (herbivore) or 90 (carnivore) less
\* the metabolism of the tick; no parent has two children in one tick.
C24_ReproductionAfterFeeding ==
    TickDone =>
        /\ \A k \in DOMAIN obs.processed :
               LET p == obs.processed[k]
                   parent == \E b \in obs.births : b.parent = p.id
               IN  /\ p.type # "neutral" => (parent <=> Fertile(k))
                   /\ parent =>
                          /\ p.energy < (IF p.type = "herbivore"
                                         THEN 45 * EU ELSE 90 * EU)
                          /\ p.energy >= (IF p.type = "herbivore"
                                          THEN 44 * EU ELSE 88 * EU)
        /\ \A b1, b2 \in obs.births : b1.parent = b2.parent => b1 = b2

\* a tick in which a herbivore and a carnivore had a child on the gain of
\* the feed alone
C24_Witness ==
    /\ TickDone
    /\ \E k \in DOMAIN obs.processed :
           /\ obs.processed[k].type = "herbivore"
           /\ Gained(k) > 0
           /\ AtStart(obs.processed[k].id).energy
                  <= herbivoreReproThreshold * EU
           /\ \E b \in obs.births : b.parent = obs.processed[k].id
    /\ \E k \in DOMAIN obs.processed :
           /\ obs.processed[k].type = "carnivore"
           /\ Gained(k) > 0
           /\ AtStart(obs.processed[k].id).energy
                  <= carnivoreReproThreshold * EU
           /\ \E b \in obs.births : b.parent = obs.processed[k].id

\* the seed cooldown of the i-th agent of the tick's start when the tick is
\* over
CooldownLeft(i) == obs.prior[i].seedCooldown

\* C25: food is pushed in the agent loop only by a neutral agent whose seed
\* cooldown was <= 0 when the tick began, once per agent and tick; the
\* cooldown of an agent that seeded is then in 250..449, that of a neutral
\* agent that did not is one lower if it was positive and the same if not,
\* and the output carries that value; the food array grows in the loop by
\* one item per seed. With the countdown by one per tick and no seed while
\* it is positive, two seeds of one agent are more than 250 ticks apart.
C25_SeedingByCooldown ==
    TickDone =>
        /\ \A k \in DOMAIN obs.seeded :
               /\ AtStart(obs.seeded[k]).type = "neutral"
               /\ Def(AtStart(obs.seeded[k]).seedCooldown) <= 0
        /\ \A j, k \in DOMAIN obs.seeded :
               obs.seeded[j] = obs.seeded[k] => j = k
        /\ Len(food) = Len(obs.foodLoop) + Len(obs.seeded) - Len(obs.feeds)
        /\ \A i \in DOMAIN obs.start :
               LET a == obs.start[i]
                   seeded == \E k \in DOMAIN obs.seeded : obs.seeded[k] = a.id
               IN  /\ a.type = "neutral" /\ seeded
                       => CooldownLeft(i) \in 250..449
                   /\ a.type = "neutral" /\ ~seeded
                       => CooldownLeft(i) =
                              (IF Def(a.seedCooldown) > 0
                               THEN a.seedCooldown - 1 ELSE a.seedCooldown)
                   /\ a.type # "neutral" => CooldownLeft(i) = a.seedCooldown
                   /\ a.id \in Ids(obs.output)
                       => InOutput(a.id).seedCooldown = CooldownLeft(i)

\* a tick that a neutral agent began with the cooldown of a seed of the
\* tick before, and ended with one less and without a seed
C25_Witness ==
    /\ TickDone
    /\ obs.seeded = << >>
    /\ \E i \in DOMAIN obs.start :
           /\ obs.start[i].type = "neutral"
           /\ Def(obs.start[i].seedCooldown) >= 250
           /\ CooldownLeft(i) = obs.start[i].seedCooldown - 1

\* the reproduction cooldown a parent and a child of this kind are given
CooldownOf(type) == IF type = "herbivore" THEN 600 ELSE 700

\* C26: the reproduction cooldown is never negative; an agent that begins a
\* tick with a positive cooldown has no child in it and leaves it with the
\* cooldown one lower; a parent began the tick with cooldown <= 0 and
\* leaves it with 599 (herbivore) or 699 (carnivore), its child is made
\* with 600 or 700; any other agent keeps its cooldown. With the countdown
\* by one per tick, two reproductions of one herbivore are 600 ticks apart
\* or more (700 for a carnivore) and a child has none in its first 600
\* (700) ticks.
C26_ReproductionCooldown ==
    /\ \A i \in DOMAIN agents : agents[i].reproCooldown >= 0
    /\ \A i \in DOMAIN updatedAgents : updatedAgents[i].reproCooldown >= 0
    /\ TickDone =>
           /\ \A b \in obs.births :
                  /\ AtStart(b.parent).reproCooldown <= 0
                  /\ b.made.reproCooldown = CooldownOf(b.made.type)
                  /\ b.parent \in Ids(obs.output)
                         => InOutput(b.parent).reproCooldown
                                = CooldownOf(b.made.type) - 1
           /\ \A i \in DOMAIN obs.start :
                  LET a == obs.start[i]
                      parent == \E b \in obs.births : b.parent = a.id
                  IN  /\ a.reproCooldown > 0 => ~parent
                      /\ a.id \in Ids(obs.output) /\ ~parent
                             => InOutput(a.id).reproCooldown
                                    = (IF a.reproCooldown > 0
                                       THEN a.reproCooldown - 1
                                       ELSE a.reproCooldown)

\* a tick in which a herbivore on cooldown fed past the threshold with room
\* under the cap, had no child and left with the cooldown one lower
C26_Witness ==
    /\ TickDone
    /\ \E k \in DOMAIN obs.processed :
           LET a == AtStart(obs.processed[k].id)
           IN  /\ a.type = "herbivore"
               /\ a.reproCooldown > 0
               /\ a.energy + Gained(k) > herbivoreReproThreshold * EU
               /\ Count(obs.start, "herbivore") + SpawnedBefore(k)
                      < obs.caps[1]
               /\ obs.births = {}
               /\ a.id \in Ids(obs.output)
               /\ InOutput(a.id).reproCooldown = a.reproCooldown - 1

\* no step of a tick in progress is a click, a slider move or the start of
\* another tick: it is the next round of the loop or the end of the tick
TickRunsToCompletion ==
    pc = "loop" =>
        /\ UNCHANGED <<isRunning, params, resets, changes, frames,
                       animationRef>>
               \/ (pc' = "idle" /\ obs'.done /\ ticks' = ticks + 1)
        /\ obs'.start = obs.start
        /\ pc' = "loop" => idx' = idx + 1 /\ ticks' = ticks
        /\ UNCHANGED <<isRunning, params, resets, changes>>

\* a step taken while the simulation is paused leaves the agents, the food
\* and the history alone, unless it is a reset
PausedWorldKept ==
    ~isRunning =>
        \/ UNCHANGED <<agents, food, history>>
        \/ resets' = resets + 1

\* C27: whatever the order of Start, Pause, slider moves, resets and frame
\* callbacks, at most one requested frame is neither called nor cancelled,
\* and it is the one animationRef.current names; while the simulation is
\* paused none is pending, no tick is in progress and only a reset changes
\* agents, food or history; a tick that began ends before anything else
\* happens.
C27_OneFrameNoTickWhilePaused ==
    /\ [](Cardinality(frames) <= 1 /\ frames \subseteq {animationRef})
    /\ [](~isRunning => frames = {} /\ pc = "idle")
    /\ [][TickRunsToCompletion /\ PausedWorldKept]_vars

\* the simulation paused after a tick, a slider move and a reset, and
\* started again: one frame is pending, the third requested or later
C27_Witness ==
    /\ isRunning
    /\ pc = "idle"
    /\ ticks >= 1
    /\ changes >= 1
    /\ resets >= 1
    /\ animationRef >= 3
    /\ frames = {animationRef}

\* the age of every agent of the tick's start is one increment of 0.05
\* higher after its round, the agents of the output that were not there at
\* the start have age 0, and an agent that began the tick one increment
\* before the limit is not in the output
AgesByOne ==
    TickDone =>
        /\ \A i \in DOMAIN obs.start :
               Cardinality({k \in DOMAIN obs.processed :
                               /\ obs.processed[k].id = obs.start[i].id
                               /\ obs.processed[k].age = obs.start[i].age + 1})
                   = 1
        /\ \A j \in DOMAIN obs.output :
               obs.output[j].age
                   = IF obs.output[j].id \in Ids(obs.start)
                     THEN AtStart(obs.output[j].id).age + 1
                     ELSE 0
        /\ \A i \in DOMAIN obs.start :
               obs.start[i].age >= AgeLimit - 1
                   => obs.start[i].id \notin Ids(obs.output)

\* the agent with this id is in a running simulation that was never reset
Ageing(id) == id \in Ids(agents) /\ isRunning /\ resets = 0

\* C28: every agent's age is one increment of 0.05 higher after each tick
\* and never lower; no agent of the agent set has more than 16000
\* increments; and an agent of a running simulation is removed in the end,
\* whatever it eats (or the simulation is paused or reset).
C28_AgeEndsEveryAgent ==
    /\ []AgesByOne
    /\ [](\A i \in DOMAIN agents :
              agents[i].age >= 0 /\ agents[i].age <= MAX_AGE * AGE_PER_UNIT)
    /\ \A id \in 0..(INITIAL_AGENTS - 1) :
           Ageing(id) ~> (id \notin Ids(agents) \/ ~isRunning \/ resets > 0)

\* a tick that removed an agent for its age alone: it began the tick with
\* 16000 increments and ended its round with energy left, after a catch or
\* a feed
C28_Witness ==
    /\ TickDone
    /\ isRunning
    /\ resets = 0
    /\ \E k \in DOMAIN obs.processed :
           /\ obs.processed[k].age = AgeLimit
           /\ obs.processed[k].energy > 0
           /\ Gained(k) > 0
           /\ obs.processed[k].id \notin Ids(agents)

\* the items of a food array
Items(foodNow) == {foodNow[k] : k \in DOMAIN foodNow}

\* the food items the herbivores of the tick fed on
Fed == {obs.feeds[k][2] : k \in DOMAIN obs.feeds}

\* C29: food is static and only a feeding herbivore removes it: an item
\* that was there when the tick began is, when the tick is over, either
\* still there with the same position or an item a herbivore of the tick's
\* start fed on; each herbivore feeds on at most one item, so the tick
\* removes at most as many items as it began with herbivores; before the
\* agent loop at most one item is added, in the loop one per seed of a
\* neutral agent, so at most one plus the number of neutral agents.
C29_FoodOnlyFedOn ==
    TickDone =>
        /\ \A item \in Items(obs.food0) : item \in Items(food) \/ item \in Fed
        /\ \A item \in Items(food), old \in Items(obs.food0) :
               item.obj = old.obj => item = old
        /\ \A k \in DOMAIN obs.feeds :
               /\ AtStart(obs.feeds[k][1]).type = "herbivore"
               /\ obs.feeds[k][2] \notin Items(food)
               /\ \A j \in DOMAIN obs.feeds :
                      obs.feeds[j][1] = obs.feeds[k][1] => j = k
        /\ Len(obs.feeds) <= Count(obs.start, "herbivore")
        /\ \A item \in Items(food) \ Items(obs.foodLoop) :
               \E k \in DOMAIN obs.seeded :
                   /\ item.x = AtStart(obs.seeded[k]).x
                   /\ item.y = AtStart(obs.seeded[k]).y
        /\ Len(obs.foodLoop) - Len(obs.food0) \in {0, 1}
        /\ Len(obs.seeded) <= Count(obs.start, "neutral")
        /\ Len(food) = Len(obs.foodLoop) + Len(obs.seeded) - Len(obs.feeds)

\* a tick with a carnivore in it, in which a herbivore fed on one item and
\* another item, there when the agent loop began, was left where it was
C29_Witness ==
    /\ TickDone
    /\ Count(obs.start, "carnivore") > 0
    /\ Len(obs.feeds) = 1
    /\ \E item \in Items(obs.foodLoop) : item \in Items(food)

----------------------------------------------------------------------------
(* Properties of the first variant, stated on its record obs *)

\* C14: in src/src/LifeSim.tsx every tick reads the current value of every
\* parameter: the herbivore speed, carnivore speed, food spawn rate and time
\* scale a tick computes with are those of the state when the tick runs,
\* whatever the user changed before it.
C14_TickReadsCurrentParameters ==
    pc = "loop" \/ obs.done =>
        /\ obs.read.herbivoreSpeed = obs.state.herbivoreSpeed
        /\ obs.read.carnivoreSpeed = obs.state.carnivoreSpeed
        /\ obs.read.foodSpawnRate = obs.state.foodSpawnRate
        /\ obs.read.timeScale = obs.state.timeScale

----------------------------------------------------------------------------
(* Properties of a world without prey *)

\* a tick that began without herbivores ends without herbivores, and every
\* carnivore it keeps has less energy than it began with
NoPreyTick ==
    TickDone /\ Count(obs.start, "herbivore") = 0 =>
        /\ Count(obs.output, "herbivore") = 0
        /\ \A j \in DOMAIN obs.output :
               /\ obs.output[j].type = "carnivore"
               /\ obs.output[j].id \in Ids(obs.start)
               => obs.output[j].energy < AtStart(obs.output[j].id).energy

\* the carnivore with this id is in a running world without herbivores
\* that has not been reset
Starving(id) ==
    /\ \E i \in DOMAIN agents :
           agents[i].id = id /\ agents[i].type = "carnivore"
    /\ Count(agents, "herbivore") = 0
    /\ isRunning
    /\ resets = 0

\* C21: carnivores die without prey: once no herbivore is left none
\* appears in a later tick, every carnivore loses energy in every tick,
\* and every carnivore is eventually absent from the agent set, unless the
\* simulation is paused or the world is reset first.
C21_CarnivoresDieWithoutPrey ==
    /\ []NoPreyTick
    /\ \A id \in 0..(INITIAL_AGENTS - 1) :
           Starving(id) ~> (id \notin Ids(agents) \/ ~isRunning \/ resets > 0)

\* a tick of a running world without herbivores that began with a carnivore
\* and ended without it
C21_Witness ==
    /\ TickDone
    /\ isRunning
    /\ resets = 0
    /\ Count(obs.start, "herbivore") = 0
    /\ \E i \in DOMAIN obs.start :
           /\ obs.start[i].type = "carnivore"
           /\ obs.start[i].id \notin Ids(agents)

\* in how many rounds of the tick's loop the agent with this id was the
\* loop variable
Rounds(id) ==
    Cardinality({k \in DOMAIN obs.processed : obs.processed[k].id = id})

\* the values the agent with this id had after line 203, in its first round
Processed(id) ==
    obs.processed[CHOOSE k \in DOMAIN obs.processed :
                      obs.processed[k].id = id]

\* C22: in the tick of src/src/LifeSim.tsx every agent present at tick
\* start is processed exactly once unless it has been eaten; an agent is
\* absent from the output only through starvation, old age or, for a
\* herbivore, predation; an eaten herbivore is absent from the output.
C22_ProcessedOnceOrEaten ==
    obs.done =>
        /\ \A i \in DOMAIN obs.start :
               obs.start[i].id \notin obs.eaten => Rounds(obs.start[i].id) = 1
        /\ \A i \in DOMAIN obs.start :
               obs.start[i].id \notin Ids(obs.output) =>
                   \/ /\ obs.start[i].type = "herbivore"
                      /\ obs.start[i].id \in obs.eaten
                   \/ /\ Rounds(obs.start[i].id) = 1
                      /\ \/ Processed(obs.start[i].id).energy <= 0
                         \/ Processed(obs.start[i].id).age
                                >= AgeLimit
        /\ \A id \in obs.eaten : id \notin Ids(obs.output)

=============================================================================
